---------------------------- MODULE Spec2Model ----------------------------
(***************************************************************************)
(* Model of the options-risk core of greeks_joinlearn:                     *)
(*   src/src/core/bs_calculator.py      (BSCalculator)                     *)
(*   src/src/core/portfolio_analyzer.py (Position, PortfolioAnalyzer)      *)
(*                                                                         *)
(* Numbers.  Python floats are modelled in decimal fixed point:            *)
(*   - dimensionless values (sigma, d1, d2, N(d), N'(d), exp(-rT), sqrt T) *)
(*     and every money amount are in thousandths ("milli");                *)
(*   - T (years) is in millionths of a year ("micro-years");               *)
(*   - gamma and vanna are in millionths;                                  *)
(*   - spot and strike are whole currency units;                           *)
(*   - wall-clock instants and dates are whole hours since an epoch.       *)
(* theta_daily = theta/365 and vega_percent = vega/100 are kept as exact   *)
(* fractions [num, den].                                                   *)
(***************************************************************************)
EXTENDS Integers, Sequences, FiniteSets, TLC

(***************************************************************************)
(* Fixed-point helpers and the library functions the code calls            *)
(* (np.log, np.sqrt, np.exp, scipy.stats.norm.cdf / norm.pdf).             *)
(***************************************************************************)
Milli == 10 * 100
Micro == Milli * Milli

Max(a, b) == IF a >= b THEN a ELSE b
Min(a, b) == IF a <= b THEN a ELSE b
Abs(a) == IF a >= 0 THEN a ELSE -a

\* a local variable: e is evaluated once and F is applied to its value
With(e, F(_)) == CHOOSE v \in { F(x) : x \in { e } } : TRUE

\* division rounding toward zero, as symmetric in sign as float division is
SDiv(a, b) ==
    IF b < 0 THEN (IF a >= 0 THEN -(a \div (-b)) ELSE (-a) \div (-b))
    ELSE (IF a >= 0 THEN a \div b ELSE -((-a) \div b))

\* a * b / c for c > 0, rounding toward zero; the quotient and the remainder
\* of a / c are multiplied apart so that a * b is never formed
MulDiv(a, b, c) ==
    IF a >= 0 THEN (a \div c) * b + SDiv((a % c) * b, c)
    ELSE -(((-a) \div c) * b + SDiv(((-a) % c) * b, c))

\* an exact fraction num/den (den > 0), and equality of two of them
Frac(n, d) == [num |-> n, den |-> d]
FracEq(x, y) ==
    IF x.den = y.den THEN x.num = y.num ELSE x.num * y.den = y.num * x.den

RECURSIVE ISqrtBits(_, _, _)
\* largest g with g*g <= n, found bit by bit from 2^b down
ISqrtBits(n, g, b) ==
    IF b < 0 THEN g
    ELSE LET c == g + 2 ^ b
         IN  ISqrtBits(n, IF c * c <= n THEN c ELSE g, b - 1)

\* np.sqrt on a non-negative integer: floor of the square root
np_sqrt(n) == ISqrtBits(n, 0, 14)

RECURSIVE AtanhSeries(_, _, _, _)
\* sum of z^k/k for odd k, z and the sum in 1/10000
AtanhSeries(z, zk, k, acc) ==
    IF zk = 0 \/ k > 41 THEN acc
    ELSE AtanhSeries(z, SDiv(SDiv(zk * z, 10000) * z, 10000), k + 2,
                     acc + SDiv(zk, k))

RECURSIVE np_log_ratio(_, _)
\* np.log(S / K) in milli: ln 2 is taken out until 1/2 <= S/K <= 2, then
\* ln x = 2 atanh((x-1)/(x+1))
np_log_ratio(S, K) ==
    IF S > 2 * K THEN 693 + np_log_ratio(S, 2 * K)
    ELSE IF K > 2 * S THEN np_log_ratio(2 * S, K) - 693
    ELSE LET z == SDiv((S - K) * 10000, S + K)
         IN  SDiv(2 * AtanhSeries(z, z, 1, 0), 10)

\* exp(-n) in micro for whole n
ExpNegWhole ==
    << 1000000, 367879, 135335, 49787, 18316, 6738, 2479, 912, 335, 123,
       45, 17, 6, 2, 1 >>

RECURSIVE ExpSeries(_, _, _, _)
\* sum of (-f)^n/n! in micro, f in milli with 0 <= f < 1000
ExpSeries(f, term, n, acc) ==
    IF term = 0 \/ n > 12 THEN acc
    ELSE ExpSeries(f, SDiv(-(term * f), n * Milli), n + 1, acc + term)

\* np.exp(-y) in milli, y >= 0 in milli
np_exp_neg(y) ==
    LET w == y \div Milli
        f == y % Milli
    IN  IF w + 1 > Len(ExpNegWhole) THEN 0
        ELSE SDiv(SDiv(ExpNegWhole[w + 1], 100) * SDiv(ExpSeries(f, Micro, 1, 0), 100),
                  100 * Milli)

\* the standard normal distribution function at 0.0, 0.1, ..., 4.1, in milli
NormCdfTable ==
    << 500, 540, 579, 618, 655, 691, 726, 758, 788, 816, 841, 864, 885, 903,
       919, 933, 945, 955, 964, 971, 977, 982, 986, 989, 992, 994, 995, 997,
       997, 998, 999, 999, 999, 1000, 1000, 1000, 1000, 1000, 1000, 1000,
       1000, 1000 >>

\* the standard normal density at 0.0, 0.1, ..., 4.1, in milli
NormPdfTable ==
    << 399, 397, 391, 381, 368, 352, 333, 312, 290, 266, 242, 218, 194, 171,
       150, 130, 111, 94, 79, 66, 54, 44, 35, 28, 22, 18, 14, 10, 8, 6, 4, 3,
       2, 2, 1, 1, 1, 0, 0, 0, 0, 0 >>

\* linear interpolation in a table with step 0.1, x >= 0 in milli
Interpolate(table, x) ==
    LET i == x \div 100
        f == x % 100
    IN  IF i + 2 > Len(table) THEN table[Len(table)]
        ELSE table[i + 1] + SDiv((table[i + 2] - table[i + 1]) * f, 100)

\* scipy.stats.norm.cdf(d), d in milli, result in milli
norm_cdf(d) ==
    IF d >= 0 THEN Interpolate(NormCdfTable, d)
    ELSE Milli - Interpolate(NormCdfTable, -d)

\* scipy.stats.norm.pdf(d), d in milli, result in milli
norm_pdf(d) == Interpolate(NormPdfTable, Abs(d))

(***************************************************************************)
(* BSCalculator (src/src/core/bs_calculator.py)                            *)
(***************************************************************************)
\* risk_free_rate = 0.05, in milli
risk_free_rate == 50

\* the smallest positive value of the fixed-point scale stands for 1e-10
Epsilon == 1

\* str.upper() and str.lower() on the option-type strings callers pass
str_upper(s) ==
    CASE s \in {"C", "c"} -> "C"
      [] s \in {"P", "p"} -> "P"
      [] s \in {"call", "Call", "CALL"} -> "CALL"
      [] s \in {"put", "Put", "PUT"} -> "PUT"
      [] OTHER -> s

str_lower(s) ==
    CASE s \in {"C", "c"} -> "c"
      [] s \in {"P", "p"} -> "p"
      [] s \in {"call", "Call", "CALL"} -> "call"
      [] s \in {"put", "Put", "PUT"} -> "put"
      [] OTHER -> s

\* option_type.lower() == 'call' or option_type.upper() == 'C'
IsCallType(option_type) ==
    str_lower(option_type) = "call" \/ str_upper(option_type) = "C"

\* sigma * sqrt(T), in milli, after the floors
SigmaSqrtT(T, sigma) ==
    SDiv(Max(sigma, Epsilon) * np_sqrt(Max(T, Epsilon)), Milli)

\* _calculate_d1_d2: <<d1, d2>> in milli
calculate_d1_d2(S, K, T, sigma) ==
    LET T1 == Max(T, Epsilon)
        sigma1 == Max(sigma, Epsilon)
        num == np_log_ratio(S, K)
               + MulDiv(risk_free_rate + SDiv(sigma1 * sigma1, 2 * Milli), T1, Micro)
        den == Max(SigmaSqrtT(T, sigma), 1)
        d1 == SDiv(num * Milli, den)
    IN  << d1, d1 - SigmaSqrtT(T, sigma) >>

\* np.exp(-r * T), in milli
Discount(T) == np_exp_neg(MulDiv(risk_free_rate, T, Micro))

\* a faulty price whose put branch leaves the strike undiscounted
option_price_put_undiscounted(S, K, T, sigma, option_type) ==
    LET d == calculate_d1_d2(S, K, T, sigma)
    IN  IF IsCallType(option_type)
        THEN S * norm_cdf(d[1]) - MulDiv(K * Discount(T), norm_cdf(d[2]), Milli)
        ELSE MulDiv(K * Milli, norm_cdf(-d[2]), Milli) - S * norm_cdf(-d[1])

\* calculate_option_price, in milli
calculate_option_price(S, K, T, sigma, option_type) ==
    LET d == calculate_d1_d2(S, K, T, sigma)
    IN  IF IsCallType(option_type)
        THEN S * norm_cdf(d[1]) - MulDiv(K * Discount(T), norm_cdf(d[2]), Milli)
        ELSE MulDiv(K * Discount(T), norm_cdf(-d[2]), Milli) - S * norm_cdf(-d[1])

\* calculate_delta, in milli
calculate_delta(S, K, T, sigma, option_type) ==
    LET d == calculate_d1_d2(S, K, T, sigma)
    IN  IF IsCallType(option_type) THEN norm_cdf(d[1]) ELSE norm_cdf(d[1]) - Milli

\* calculate_gamma, in micro
calculate_gamma(S, K, T, sigma) ==
    LET d == calculate_d1_d2(S, K, T, sigma)
        den == Max(SDiv(SDiv(S * Max(sigma, Epsilon), 10) * np_sqrt(Max(T, Epsilon)), 100), 1)
    IN  SDiv(norm_pdf(d[1]) * Micro, den)

\* calculate_theta (per year), in milli
calculate_theta(S, K, T, sigma, option_type) ==
    LET d == calculate_d1_d2(S, K, T, sigma)
        decay == SDiv(S * norm_pdf(d[1]) * sigma, 2 * Max(np_sqrt(Max(T, Epsilon)), 1))
        carry == MulDiv(risk_free_rate * K, Discount(T), Milli)
    IN  IF IsCallType(option_type)
        THEN -decay - MulDiv(carry, norm_cdf(d[2]), Milli)
        ELSE -decay + MulDiv(carry, norm_cdf(-d[2]), Milli)

\* calculate_vega, in milli
calculate_vega(S, K, T, sigma) ==
    LET d == calculate_d1_d2(S, K, T, sigma)
    IN  SDiv(S * np_sqrt(Max(T, Epsilon)) * norm_pdf(d[1]), Milli)

\* calculate_rho, in milli
calculate_rho(S, K, T, sigma, option_type) ==
    LET d == calculate_d1_d2(S, K, T, sigma)
        KT == MulDiv(SDiv(K * Max(T, Epsilon), Milli), Discount(T), Milli)
    IN  IF IsCallType(option_type)
        THEN MulDiv(KT, norm_cdf(d[2]), Milli)
        ELSE -MulDiv(KT, norm_cdf(-d[2]), Milli)

\* calculate_vanna, in micro
calculate_vanna(S, K, T, sigma) ==
    LET d == calculate_d1_d2(S, K, T, sigma)
    IN  SDiv(-(norm_pdf(d[1]) * d[2]) * Milli, Max(S, Epsilon) * Max(sigma, Epsilon))

\* calculate_volga, in milli
calculate_volga(S, K, T, sigma) ==
    LET d == calculate_d1_d2(S, K, T, sigma)
        vega == calculate_vega(S, K, Max(T, Epsilon), Max(sigma, Epsilon))
    IN  SDiv(SDiv(vega * d[1], Milli) * d[2], Max(sigma, Epsilon))

\* calculate_all_greeks with include_second_order = True
calculate_all_greeks(S, K, T, sigma, option_type) ==
    With(calculate_theta(S, K, T, sigma, option_type), LAMBDA theta :
    With(calculate_vega(S, K, T, sigma), LAMBDA vega :
        [ price        |-> calculate_option_price(S, K, T, sigma, option_type),
          delta        |-> calculate_delta(S, K, T, sigma, option_type),
          gamma        |-> calculate_gamma(S, K, T, sigma),
          theta        |-> theta,
          theta_daily  |-> Frac(theta, 365),
          vega         |-> vega,
          vega_percent |-> Frac(vega, 100),
          rho          |-> calculate_rho(S, K, T, sigma, option_type),
          vanna        |-> calculate_vanna(S, K, T, sigma),
          volga        |-> calculate_volga(S, K, T, sigma) ]))


(***************************************************************************)
(* Position (src/src/core/portfolio_analyzer.py)                           *)
(***************************************************************************)
\* Python's None, and a value that is present
None == << >>
Some(x) == << x >>

HoursPerDay == 24
DaysPerYear == 365

\* pd.to_datetime('YYYY-MM-DD'): midnight of day number `day`, in hours
to_datetime(day) == day * HoursPerDay

\* Position.__init__
Position(expiration_date, strike, option_type, quantity, volatility, entry_price) ==
    [ expiration_date |-> to_datetime(expiration_date),
      strike          |-> strike,
      option_type     |-> str_upper(option_type),
      quantity        |-> quantity,
      volatility      |-> IF volatility # None THEN volatility[1] ELSE Milli,
      entry_price     |-> entry_price ]

\* Position.days_to_expiry: timedelta.days is the floor of the difference in
\* days; current_date None reads the clock
days_to_expiry(pos, current_date, clock) ==
    LET date == IF current_date = None THEN clock ELSE current_date[1]
    IN  Max((pos.expiration_date - date) \div HoursPerDay, 0)

\* Position.time_to_maturity, in micro-years
time_to_maturity(pos, current_date, clock) ==
    (days_to_expiry(pos, current_date, clock) * Micro) \div DaysPerYear

(***************************************************************************)
(* PortfolioAnalyzer: the pure part of each method.  `self` is             *)
(* [positions, current_spot_price]; `clock` is what datetime.now() returns.*)
(***************************************************************************)
\* T <= 0.001, in micro-years
ExpiryThreshold == 1000

\* max(S - K, 0) for 'C', max(K - S, 0) otherwise, in milli
IntrinsicValue(pos, spot_price) ==
    IF str_upper(pos.option_type) = "C"
    THEN Max(spot_price - pos.strike, 0) * Milli
    ELSE Max(pos.strike - spot_price, 0) * Milli

\* the delta of the intrinsic-value branch, in milli
IntrinsicDelta(pos, spot_price) ==
    IF str_upper(pos.option_type) = "C"
    THEN (IF spot_price > pos.strike THEN Milli ELSE 0)
    ELSE (IF spot_price < pos.strike THEN -Milli ELSE 0)

\* whether the loop body takes the intrinsic-value branch for pos
NearExpiry(pos, adjusted_date) ==
    time_to_maturity(pos, Some(adjusted_date), 0) <= ExpiryThreshold

\* a faulty loop body that weights every leg by the size of its quantity and
\* loses the sign (long and short legs add alike)
LegTotalsUnsigned(pos, spot_price, adjusted_date, volatility_multiplier) ==
    LET size == Abs(pos.quantity)
    IN  IF NearExpiry(pos, adjusted_date)
        THEN [ branch |-> "intrinsic",
               delta |-> IntrinsicDelta(pos, spot_price) * size,
               gamma |-> 0, theta |-> 0, vega |-> 0, rho |-> 0, vanna |-> 0,
               volga |-> 0,
               value |-> IntrinsicValue(pos, spot_price) * size ]
        ELSE With(calculate_all_greeks(
                      spot_price, pos.strike,
                      time_to_maturity(pos, Some(adjusted_date), 0),
                      SDiv(pos.volatility * volatility_multiplier, Milli),
                      pos.option_type),
                  LAMBDA greeks :
                    [ branch |-> "bs",
                      delta |-> greeks.delta * size, gamma |-> greeks.gamma * size,
                      theta |-> greeks.theta * size, vega |-> greeks.vega * size,
                      rho |-> greeks.rho * size, vanna |-> greeks.vanna * size,
                      volga |-> greeks.volga * size, value |-> greeks.price * size ])

\* one iteration of the loop of calculate_portfolio_greeks: what pos adds to
\* each total
LegTotals(pos, spot_price, adjusted_date, volatility_multiplier) ==
    IF NearExpiry(pos, adjusted_date)
    THEN [ branch |-> "intrinsic",
           delta |-> IntrinsicDelta(pos, spot_price) * pos.quantity,
           gamma |-> 0, theta |-> 0, vega |-> 0, rho |-> 0, vanna |-> 0,
           volga |-> 0,
           value |-> IntrinsicValue(pos, spot_price) * pos.quantity ]
    ELSE With(calculate_all_greeks(
                  spot_price, pos.strike,
                  time_to_maturity(pos, Some(adjusted_date), 0),
                  SDiv(pos.volatility * volatility_multiplier, Milli),
                  pos.option_type),
              LAMBDA greeks :
                [ branch |-> "bs",
                  delta |-> greeks.delta * pos.quantity,
                  gamma |-> greeks.gamma * pos.quantity,
                  theta |-> greeks.theta * pos.quantity,
                  vega  |-> greeks.vega * pos.quantity,
                  rho   |-> greeks.rho * pos.quantity,
                  vanna |-> greeks.vanna * pos.quantity,
                  volga |-> greeks.volga * pos.quantity,
                  value |-> greeks.price * pos.quantity ])

ZeroTotals ==
    [ delta |-> 0, gamma |-> 0, theta |-> 0, vega |-> 0, rho |-> 0,
      vanna |-> 0, volga |-> 0, value |-> 0 ]

\* a faulty loop that assigns each leg's contribution to the totals instead of
\* adding it (`=` for `+=`): only the last leg is left in them
SumTotalsOverwrite(positions, n, spot_price, adjusted_date, volatility_multiplier) ==
    IF n = 0 THEN ZeroTotals
    ELSE With(LegTotals(positions[n], spot_price, adjusted_date,
                        volatility_multiplier),
              LAMBDA c :
                [ delta |-> c.delta, gamma |-> c.gamma, theta |-> c.theta,
                  vega |-> c.vega, rho |-> c.rho, vanna |-> c.vanna,
                  volga |-> c.volga, value |-> c.value ])

RECURSIVE SumTotals(_, _, _, _, _)
\* the totals after the loop has run over positions[1..n]
SumTotals(positions, n, spot_price, adjusted_date, volatility_multiplier) ==
    IF n = 0 THEN ZeroTotals
    ELSE With(SumTotals(positions, n - 1, spot_price, adjusted_date,
                        volatility_multiplier),
              LAMBDA t :
                With(LegTotals(positions[n], spot_price, adjusted_date,
                               volatility_multiplier),
                     LAMBDA c :
                       [ delta |-> t.delta + c.delta, gamma |-> t.gamma + c.gamma,
                         theta |-> t.theta + c.theta, vega |-> t.vega + c.vega,
                         rho |-> t.rho + c.rho, vanna |-> t.vanna + c.vanna,
                         volga |-> t.volga + c.volga, value |-> t.value + c.value ]))

\* the dictionary returned for an empty position list
EmptyGreeks ==
    [ delta |-> 0, gamma |-> 0, theta |-> 0, theta_daily |-> Frac(0, 1),
      vega |-> 0, rho |-> 0, vanna |-> 0, volga |-> 0, position_value |-> 0 ]

\* the dictionary returned after the loop
TotalsGreeks(t) ==
    [ delta |-> t.delta, gamma |-> t.gamma, theta |-> t.theta,
      theta_daily |-> Frac(t.theta, 365),
      vega |-> t.vega, vega_percent |-> Frac(t.vega, 100),
      rho |-> t.rho, vanna |-> t.vanna, volga |-> t.volga,
      position_value |-> t.value ]

\* a faulty aggregate that values the legs at the valuation date and ignores
\* the time offset
greeks_offset_ignored(self, clock, spot_price, current_date, volatility_multiplier, time_days_offset) ==
    LET spot == IF spot_price = None THEN self.current_spot_price ELSE spot_price[1]
        date == IF current_date = None THEN clock ELSE current_date[1]
    IN  IF self.positions = << >> THEN EmptyGreeks
        ELSE With(SumTotals(self.positions, Len(self.positions), spot,
                            date, volatility_multiplier),
                  LAMBDA t : TotalsGreeks(t))

\* calculate_portfolio_greeks
calculate_portfolio_greeks(self, clock, spot_price, current_date, volatility_multiplier, time_days_offset) ==
    LET spot == IF spot_price = None THEN self.current_spot_price ELSE spot_price[1]
        date == IF current_date = None THEN clock ELSE current_date[1]
        adjusted_date == date + time_days_offset * HoursPerDay
    IN  IF self.positions = << >> THEN EmptyGreeks
        ELSE With(SumTotals(self.positions, Len(self.positions), spot,
                            adjusted_date, volatility_multiplier),
                  LAMBDA t : TotalsGreeks(t))

\* the branch the loop of calculate_portfolio_greeks takes for each position
\* (an observation of the execution, not part of the returned dictionary)
BranchesTaken(self, clock, current_date, time_days_offset) ==
    LET date == IF current_date = None THEN clock ELSE current_date[1]
        adjusted_date == date + time_days_offset * HoursPerDay
    IN  [ i \in 1..Len(self.positions) |->
            IF NearExpiry(self.positions[i], adjusted_date) THEN "intrinsic" ELSE "bs" ]

\* the time to maturity the loop of calculate_portfolio_greeks computes for
\* each position, in micro-years (an observation of the execution)
MaturitiesUsed(self, clock, current_date, time_days_offset) ==
    LET date == IF current_date = None THEN clock ELSE current_date[1]
        adjusted_date == date + time_days_offset * HoursPerDay
    IN  [ i \in 1..Len(self.positions) |->
            time_to_maturity(self.positions[i], Some(adjusted_date), clock) ]

\* a faulty single-position valuation that prices the leg with its stored
\* volatility and ignores the volatility multiplier
single_greeks_multiplier_ignored(self, clock, position, spot_price, elapsed_days, current_date, volatility_multiplier) ==
    LET spot == IF spot_price = None THEN self.current_spot_price ELSE spot_price[1]
        date == IF current_date = None THEN clock ELSE current_date[1]
        adjusted_date == date + elapsed_days * HoursPerDay
        T == time_to_maturity(position, Some(adjusted_date), clock)
    IN  IF T <= ExpiryThreshold
        THEN [ delta |-> IntrinsicDelta(position, spot) * position.quantity,
               gamma |-> 0, theta |-> 0, theta_daily |-> Frac(0, 1), vega |-> 0,
               rho |-> 0, vanna |-> 0, volga |-> 0,
               position_value |-> IntrinsicValue(position, spot) * position.quantity,
               remaining_days |-> 0 ]
        ELSE With(calculate_all_greeks(spot, position.strike, T,
                                       position.volatility,
                                       position.option_type),
                  LAMBDA greeks :
                    [ delta |-> greeks.delta * position.quantity,
                      gamma |-> greeks.gamma * position.quantity,
                      theta |-> greeks.theta * position.quantity,
                      theta_daily |-> Frac(greeks.theta * position.quantity, 365),
                      vega |-> greeks.vega * position.quantity,
                      rho |-> greeks.rho * position.quantity,
                      vanna |-> greeks.vanna * position.quantity,
                      volga |-> greeks.volga * position.quantity,
                      position_value |-> greeks.price * position.quantity,
                      remaining_days |->
                          days_to_expiry(position, Some(adjusted_date), clock) ])

\* calculate_single_position_greeks
calculate_single_position_greeks(self, clock, position, spot_price, elapsed_days, current_date, volatility_multiplier) ==
    LET spot == IF spot_price = None THEN self.current_spot_price ELSE spot_price[1]
        date == IF current_date = None THEN clock ELSE current_date[1]
        adjusted_date == date + elapsed_days * HoursPerDay
        T == time_to_maturity(position, Some(adjusted_date), clock)
    IN  IF T <= ExpiryThreshold
        THEN [ delta |-> IntrinsicDelta(position, spot) * position.quantity,
               gamma |-> 0, theta |-> 0, theta_daily |-> Frac(0, 1), vega |-> 0,
               rho |-> 0, vanna |-> 0, volga |-> 0,
               position_value |-> IntrinsicValue(position, spot) * position.quantity,
               remaining_days |-> 0 ]
        ELSE With(calculate_all_greeks(spot, position.strike, T,
                                       SDiv(position.volatility * volatility_multiplier, Milli),
                                       position.option_type),
                  LAMBDA greeks :
                    [ delta |-> greeks.delta * position.quantity,
                      gamma |-> greeks.gamma * position.quantity,
                      theta |-> greeks.theta * position.quantity,
                      theta_daily |-> Frac(greeks.theta * position.quantity, 365),
                      vega |-> greeks.vega * position.quantity,
                      rho |-> greeks.rho * position.quantity,
                      vanna |-> greeks.vanna * position.quantity,
                      volga |-> greeks.volga * position.quantity,
                      position_value |-> greeks.price * position.quantity,
                      remaining_days |->
                          days_to_expiry(position, Some(adjusted_date), clock) ])

\* a faulty entry price that ignores the recorded entry_price and always
\* re-prices the leg at the reference spot
EntryPriceTheoretical(pos, current_spot_price, clock) ==
    LET T_original == time_to_maturity(pos, Some(clock), clock)
    IN  IF T_original > 0
        THEN calculate_option_price(current_spot_price, pos.strike, T_original,
                                    pos.volatility, str_lower(pos.option_type))
        ELSE IntrinsicValue(pos, current_spot_price)

\* the entry price calculate_cost_basis uses for pos, in milli
EntryPriceOf(pos, current_spot_price, clock) ==
    IF pos.entry_price # None THEN pos.entry_price[1]
    ELSE LET T_original == time_to_maturity(pos, Some(clock), clock)
         IN  IF T_original > 0
             THEN calculate_option_price(current_spot_price, pos.strike, T_original,
                                         pos.volatility, str_lower(pos.option_type))
             ELSE IntrinsicValue(pos, current_spot_price)

RECURSIVE SumCost(_, _, _, _)
SumCost(positions, n, current_spot_price, clock) ==
    IF n = 0 THEN 0
    ELSE SumCost(positions, n - 1, current_spot_price, clock)
         + EntryPriceOf(positions[n], current_spot_price, clock) * positions[n].quantity

\* calculate_cost_basis, in milli
calculate_cost_basis(self, clock, current_spot_price) ==
    IF self.positions = << >> THEN 0
    ELSE SumCost(self.positions, Len(self.positions),
                 IF current_spot_price = None THEN self.current_spot_price
                 ELSE current_spot_price[1],
                 clock)


\* np.linspace(a, b, n) on whole currency units (or whole hours)
linspace(a, b, n) ==
    [ i \in 1..n |-> IF n = 1 THEN a ELSE a + SDiv((i - 1) * (b - a), n - 1) ]

RECURSIVE MinStrike(_, _)
MinStrike(positions, n) ==
    IF n = 1 THEN positions[1].strike
    ELSE Min(MinStrike(positions, n - 1), positions[n].strike)

RECURSIVE MaxStrike(_, _)
MaxStrike(positions, n) ==
    IF n = 1 THEN positions[1].strike
    ELSE Max(MaxStrike(positions, n - 1), positions[n].strike)

\* calculate_smart_price_range: <<spot_min, spot_max>>
calculate_smart_price_range(self, price_range_mode) ==
    LET S == self.current_spot_price
        n == Len(self.positions)
        smart == << Max(Min(SDiv(S, 100), SDiv(MinStrike(self.positions, n), 10)), 1),
                    Max(S * 10, MaxStrike(self.positions, n) * 10) >>
    IN  IF self.positions = << >> THEN << SDiv(S, 2), SDiv(S * 3, 2) >>
        ELSE IF price_range_mode = "smart" THEN smart
        ELSE IF price_range_mode = "linear" THEN << SDiv(S, 100), S * 100 >>
        ELSE IF price_range_mode = "strike_based"
             THEN << SDiv(MinStrike(self.positions, n), 10),
                     MaxStrike(self.positions, n) * 10 >>
        ELSE smart

RECURSIVE RootBits(_, _, _, _)
\* largest g with g^k <= x, found bit by bit from 2^b down
RootBits(x, k, g, b) ==
    IF b < 0 THEN g
    ELSE LET c == g + 2 ^ b
         IN  RootBits(x, k, IF c ^ k <= x THEN c ELSE g, b - 1)

\* np.logspace(np.log10(a), np.log10(b), n) on whole currency units: the
\* points a * (b / a) ^ ((i - 1) / (n - 1))
logspace(a, b, n) ==
    [ i \in 1..n |->
        IF i = 1 THEN a
        ELSE IF i = n THEN b
        ELSE RootBits(a ^ (n - i) * b ^ (i - 1), n - 1, 0, (30 \div (n - 1)) - 1) ]

\* the spot axis of greeks_vs_spot_price
SpotAxis(self, spot_min, spot_max, num_points, price_range_mode, use_log_scale) ==
    LET calculated == calculate_smart_price_range(self, price_range_mode)
        lo == IF spot_min = None THEN calculated[1] ELSE spot_min[1]
        hi == IF spot_max = None THEN calculated[2] ELSE spot_max[1]
    IN  IF use_log_scale THEN logspace(Max(lo, 1), hi, num_points)
        ELSE linspace(lo, hi, num_points)

\* a faulty row whose current-spot marker is the spot of the row
GreeksRowMarkedAtRow(self, spot, greeks) ==
    [ spot_price |-> spot,
      delta |-> greeks.delta, gamma |-> greeks.gamma, theta |-> greeks.theta,
      theta_daily |-> greeks.theta_daily, vega |-> greeks.vega,
      rho |-> greeks.rho, vanna |-> greeks.vanna, volga |-> greeks.volga,
      position_value |-> greeks.position_value,
      current_spot |-> spot ]

\* one row of the DataFrame of greeks_vs_spot_price
GreeksRow(self, spot, greeks) ==
    [ spot_price |-> spot,
      delta |-> greeks.delta, gamma |-> greeks.gamma, theta |-> greeks.theta,
      theta_daily |-> greeks.theta_daily, vega |-> greeks.vega,
      rho |-> greeks.rho, vanna |-> greeks.vanna, volga |-> greeks.volga,
      position_value |-> greeks.position_value,
      current_spot |-> self.current_spot_price ]

\* greeks_vs_spot_price: the rows of the DataFrame, << >> for an empty one
greeks_vs_spot_price(self, clock, spot_min, spot_max, num_points, current_date, price_range_mode, use_log_scale, volatility_multiplier, time_days_offset) ==
    IF self.positions = << >> THEN << >>
    ELSE LET spot_range == SpotAxis(self, spot_min, spot_max, num_points,
                                    price_range_mode, use_log_scale)
         IN  [ i \in 1..num_points |->
                 With(calculate_portfolio_greeks(
                          self, clock, Some(spot_range[i]), current_date,
                          volatility_multiplier, time_days_offset),
                      LAMBDA greeks : GreeksRow(self, spot_range[i], greeks)) ]

\* faulty PnL columns that measure the PnL from the value at the current spot
\* instead of from the cost basis
PnlColumnsFromCurrent(row, cost_basis, current_value) ==
    [ pnl |-> row.position_value - current_value,
      cost_basis |-> cost_basis,
      current_value |-> current_value ]

\* the columns pnl_vs_spot_price adds to a row of greeks_vs_spot_price
PnlColumns(row, cost_basis, current_value) ==
    [ pnl |-> row.position_value - cost_basis,
      cost_basis |-> cost_basis,
      current_value |-> current_value ]

\* pnl_vs_spot_price: the rows of the DataFrame, << >> for an empty one
pnl_vs_spot_price(self, clock, spot_min, spot_max, num_points, current_date, volatility_multiplier, time_days_offset, price_range_mode, use_log_scale) ==
    IF self.positions = << >> THEN << >>
    ELSE With(calculate_cost_basis(self, clock, Some(self.current_spot_price)),
              LAMBDA cost_basis :
         With(greeks_vs_spot_price(self, clock, spot_min, spot_max, num_points,
                                   current_date, price_range_mode, use_log_scale,
                                   volatility_multiplier, time_days_offset),
              LAMBDA greeks_df :
         With(calculate_portfolio_greeks(self, clock, Some(self.current_spot_price),
                                         current_date, volatility_multiplier,
                                         time_days_offset).position_value,
              LAMBDA current_value :
                [ i \in 1..Len(greeks_df) |->
                    greeks_df[i] @@ PnlColumns(greeks_df[i], cost_basis,
                                               current_value) ])))

RECURSIVE ExpirationValue(_, _, _)
\* the inner loop of calculate_max_loss_at_expiration, in milli
ExpirationValue(positions, n, spot_price) ==
    IF n = 0 THEN 0
    ELSE ExpirationValue(positions, n - 1, spot_price)
         + IntrinsicValue(positions[n], spot_price) * positions[n].quantity

RECURSIVE MinOf(_, _)
\* min(values[1..n])
MinOf(values, n) ==
    IF n = 1 THEN values[1] ELSE Min(MinOf(values, n - 1), values[n])

\* a faulty calculate_max_loss_at_expiration without the early return for an
\* empty position list
max_loss_unguarded(self, clock, spot_min, spot_max, num_points, cost_basis) ==
    LET cost == IF cost_basis = None
                THEN calculate_cost_basis(self, clock, Some(self.current_spot_price))
                ELSE cost_basis[1]
        lo == IF spot_min = None THEN SDiv(self.current_spot_price, 10)
              ELSE spot_min[1]
        hi == IF spot_max = None THEN self.current_spot_price * 3 ELSE spot_max[1]
        spot_prices == linspace(lo, hi, num_points)
        expiration_values ==
            [ i \in 1..num_points |->
                ExpirationValue(self.positions, Len(self.positions), spot_prices[i]) ]
    IN  MinOf(expiration_values, num_points) - cost

\* calculate_max_loss_at_expiration, in milli
calculate_max_loss_at_expiration(self, clock, spot_min, spot_max, num_points, cost_basis) ==
    IF self.positions = << >> THEN 0
    ELSE LET cost == IF cost_basis = None
                     THEN calculate_cost_basis(self, clock,
                                               Some(self.current_spot_price))
                     ELSE cost_basis[1]
             lo == IF spot_min = None THEN SDiv(self.current_spot_price, 10)
                   ELSE spot_min[1]
             hi == IF spot_max = None THEN self.current_spot_price * 3
                   ELSE spot_max[1]
             spot_prices == linspace(lo, hi, num_points)
             expiration_values ==
                 [ i \in 1..num_points |->
                     ExpirationValue(self.positions, Len(self.positions),
                                     spot_prices[i]) ]
         IN  MinOf(expiration_values, num_points) - cost

\* a faulty longest expiry that looks at the last leg only
MaxDaysLastLeg(positions, n, clock) == days_to_expiry(positions[n], None, clock)

RECURSIVE MaxDays(_, _, _)
\* max(pos.days_to_expiry() for pos in positions[1..n])
MaxDays(positions, n, clock) ==
    IF n = 1 THEN days_to_expiry(positions[1], None, clock)
    ELSE Max(MaxDays(positions, n - 1, clock),
             days_to_expiry(positions[n], None, clock))

\* time_decay_analysis: the rows of the DataFrame; days_range is None or
\* <<min_days, max_days>>; days_to_expiry and date are in hours
time_decay_analysis(self, clock, days_range, num_points, spot_price) ==
    IF self.positions = << >> THEN << >>
    ELSE LET spot == IF spot_price = None THEN self.current_spot_price
                     ELSE spot_price[1]
             range == IF days_range = None
                      THEN << 0, MaxDays(self.positions, Len(self.positions), clock) >>
                      ELSE days_range[1]
             days_array == linspace(range[2] * HoursPerDay, range[1] * HoursPerDay,
                                    num_points)
         IN  [ i \in 1..num_points |->
                 LET future_date == clock + (range[2] * HoursPerDay - days_array[i])
                 IN  With(calculate_portfolio_greeks(
                              self, clock, Some(spot), Some(future_date), Milli, 0),
                          LAMBDA greeks :
                            [ days_to_expiry |-> days_array[i], date |-> future_date,
                              delta |-> greeks.delta, gamma |-> greeks.gamma,
                              theta |-> greeks.theta,
                              theta_daily |-> greeks.theta_daily,
                              vega |-> greeks.vega, rho |-> greeks.rho,
                              vanna |-> greeks.vanna, volga |-> greeks.volga,
                              position_value |-> greeks.position_value ]) ]

\* a faulty scaling that multiplies the volatility the position holds now
\* (left by the previous sweep point) instead of the saved original
ScaledPositionsCompounding(positions, original_vols, iv_change) ==
    [ i \in 1..Len(positions) |->
        [ positions[i] EXCEPT
            !.volatility = Max(SDiv(positions[i].volatility * (Milli + iv_change), Milli),
                               10) ] ]

\* the volatilities volatility_sensitivity_analysis stores for one sweep point:
\* original * (1 + iv_change), at least 1%
ScaledPositions(positions, original_vols, iv_change) ==
    [ i \in 1..Len(positions) |->
        [ positions[i] EXCEPT
            !.volatility = Max(SDiv(original_vols[i] * (Milli + iv_change), Milli), 10) ] ]

\* a faulty restore that leaves the positions as the last sweep point left
\* them
RestoredPositionsSkipped(positions, original_vols) == positions

\* the positions with the saved volatilities put back
RestoredPositions(positions, original_vols) ==
    [ i \in 1..Len(positions) |-> [ positions[i] EXCEPT !.volatility = original_vols[i] ] ]

\* the row volatility_sensitivity_analysis appends for one sweep point; `self`
\* holds the positions with the scaled volatilities
VolatilityRow(self, clock, iv_change, spot_price, current_date) ==
    With(calculate_portfolio_greeks(self, clock, Some(spot_price), current_date,
                                    Milli, 0),
         LAMBDA greeks :
           [ iv_change_percent |-> SDiv(iv_change, 10),
             delta |-> greeks.delta, gamma |-> greeks.gamma,
             theta |-> greeks.theta, vega |-> greeks.vega,
             rho |-> greeks.rho, vanna |-> greeks.vanna,
             volga |-> greeks.volga,
             position_value |-> greeks.position_value ])

\* volatility_sensitivity_analysis: the rows of the DataFrame it returns;
\* iv_change_range is <<low, high>> in milli
volatility_sensitivity_analysis(self, clock, iv_change_range, num_points, spot_price, current_date) ==
    IF self.positions = << >> THEN << >>
    ELSE LET spot == IF spot_price = None THEN self.current_spot_price
                     ELSE spot_price[1]
             iv_changes == linspace(iv_change_range[1], iv_change_range[2], num_points)
             original_vols == [ i \in 1..Len(self.positions) |->
                                  self.positions[i].volatility ]
         IN  [ k \in 1..num_points |->
                 VolatilityRow([ self EXCEPT !.positions =
                                   ScaledPositions(self.positions, original_vols,
                                                   iv_changes[k]) ],
                               clock, iv_changes[k], spot, current_date) ]


\* a faulty add_position that skips a leg the list already holds
add_position_dedup(list, pos) ==
    IF \E i \in 1..Len(list) : list[i] = pos THEN list ELSE Append(list, pos)

\* add_position: the position list after the call
add_position(list, pos) == Append(list, pos)

\* a faulty rounding that drops the remainder of current_spot / 100
floor_hundreds(current_spot) == current_spot \div 100

\* Python's round(current_spot / 100): the nearest whole number, a tie going
\* to the even one
round_hundreds(current_spot) ==
    LET q == current_spot \div 100
        r == current_spot % 100
    IN  IF r < 50 THEN q
        ELSE IF r > 50 THEN q + 1
        ELSE IF q % 2 = 0 THEN q ELSE q + 1

\* atm_strike = round(current_spot / 100) * 100
AtmStrike(current_spot) == round_hundreds(current_spot) * 100

\* the keys of the dict `templates`, in the order the dict lists them
TemplateKeys ==
    << "long_straddle", "short_straddle", "long_strangle", "short_strangle",
       "bull_call_spread", "bear_put_spread", "iron_condor", "butterfly",
       "call_calendar_spread" >>

\* the dict `templates`: for each strategy its legs <<strike, option_type, quantity>>
templates(atm_strike) ==
    [ long_straddle        |-> << << atm_strike, "C", 1 >>, << atm_strike, "P", 1 >> >>,
      short_straddle       |-> << << atm_strike, "C", -1 >>, << atm_strike, "P", -1 >> >>,
      long_strangle        |-> << << atm_strike + 200, "C", 1 >>,
                                  << atm_strike - 200, "P", 1 >> >>,
      short_strangle       |-> << << atm_strike + 200, "C", -1 >>,
                                  << atm_strike - 200, "P", -1 >> >>,
      bull_call_spread     |-> << << atm_strike - 100, "C", 1 >>,
                                  << atm_strike + 100, "C", -1 >> >>,
      bear_put_spread      |-> << << atm_strike + 100, "P", 1 >>,
                                  << atm_strike - 100, "P", -1 >> >>,
      iron_condor          |-> << << atm_strike - 300, "P", 1 >>,
                                  << atm_strike - 100, "P", -1 >>,
                                  << atm_strike + 100, "C", -1 >>,
                                  << atm_strike + 300, "C", 1 >> >>,
      butterfly            |-> << << atm_strike - 200, "C", 1 >>,
                                  << atm_strike, "C", -2 >>,
                                  << atm_strike + 200, "C", 1 >> >>,
      call_calendar_spread |-> << << atm_strike, "C", -1 >>, << atm_strike, "C", 1 >> >> ]

\* timedelta(days=30)
DefaultExpiryDays == 30

\* (datetime.now() + timedelta(days=30)).strftime('%Y-%m-%d'): the day number
\* of the instant 30 days after `clock`, its time of day dropped
default_expiry(clock) == (clock + DefaultExpiryDays * HoursPerDay) \div HoursPerDay

\* the exception load_strategy_template raises for an unknown name; the
\* message is made of the rejected name and of list(templates.keys())
ValueError(strategy_name) ==
    [ type |-> "ValueError", strategy_name |-> strategy_name,
      available |-> TemplateKeys ]

\* the position the loop of load_strategy_template adds for a template leg
TemplateLeg(clock, current_spot, leg) ==
    LET expiry == default_expiry(clock)
        T == (((to_datetime(expiry) - clock) \div HoursPerDay) * Micro) \div DaysPerYear
        entry_price == IF T > 0
                       THEN calculate_option_price(current_spot, leg[1], T, Milli,
                                                   str_lower(leg[2]))
                       ELSE 0
    IN  Position(expiry, leg[1], leg[2], leg[3], Some(Milli), Some(entry_price))

RECURSIVE AddTemplateLegs(_, _, _, _, _)
\* the position list after the loop has added legs[1..n] to `list`
AddTemplateLegs(list, legs, n, clock, current_spot) ==
    IF n = 0 THEN list
    ELSE add_position(AddTemplateLegs(list, legs, n - 1, clock, current_spot),
                      TemplateLeg(clock, current_spot, legs[n]))

\* a faulty load_strategy_template that falls back to the first template when
\* the name is unknown
load_with_fallback(self, clock, strategy_name, current_spot) ==
    LET spot == IF current_spot = None THEN self.current_spot_price
                ELSE current_spot[1]
        recipes == templates(AtmStrike(spot))
        name == IF strategy_name \in DOMAIN recipes THEN strategy_name
                ELSE TemplateKeys[1]
    IN  [ positions |-> AddTemplateLegs(<< >>, recipes[name], Len(recipes[name]),
                                        clock, spot),
          raised |-> None ]

\* a faulty load_strategy_template that does not clear the position list
\* before it adds the legs
load_without_clear(self, clock, strategy_name, current_spot) ==
    LET spot == IF current_spot = None THEN self.current_spot_price
                ELSE current_spot[1]
        recipes == templates(AtmStrike(spot))
    IN  IF strategy_name \notin DOMAIN recipes
        THEN [ positions |-> self.positions,
               raised |-> Some(ValueError(strategy_name)) ]
        ELSE [ positions |-> AddTemplateLegs(self.positions, recipes[strategy_name],
                                             Len(recipes[strategy_name]), clock, spot),
               raised |-> None ]

\* load_strategy_template: the position list it leaves and the exception it
\* raises (None when it returns)
load_strategy_template(self, clock, strategy_name, current_spot) ==
    LET spot == IF current_spot = None THEN self.current_spot_price
                ELSE current_spot[1]
        cleared == << >>
        recipes == templates(AtmStrike(spot))
    IN  IF strategy_name \notin DOMAIN recipes
        THEN [ positions |-> cleared, raised |-> Some(ValueError(strategy_name)) ]
        ELSE [ positions |-> AddTemplateLegs(cleared, recipes[strategy_name],
                                             Len(recipes[strategy_name]), clock, spot),
               raised |-> None ]


(***************************************************************************)
(* The analyzer as a state machine.  One PortfolioAnalyzer instance, the   *)
(* wall clock, and a sequential caller: the caller makes one call at a     *)
(* time, holds what the call returned in `last`, and drops it (Return)     *)
(* before its next call.                                                   *)
(***************************************************************************)
VARIABLES
    positions,           \* self.positions
    current_spot_price,  \* self.current_spot_price
    now,                 \* datetime.now(), in hours
    last                 \* the call the caller is in or holds the result of

vars == << positions, current_spot_price, now, last >>

self == [ positions |-> positions, current_spot_price |-> current_spot_price ]

\* the caller holds no result
NoCall == [ op |-> "none" ]

\* bounds of the model
MaxPositions == 2
MaxNow == 20
MaxPoints == 3

\* self.current_spot_price = 3000.0
DefaultSpot == 3000

\* the arguments callers pass to add_position:
\* <<expiration day, strike, option_type, quantity, volatility, entry_price>>
LegInputs ==
    { << 1, 200, "C", 1, None, None >>,
      << 1, 500, "P", -1, Some(500), Some(30000) >>,
      << 2, 500, "c", 2, None, Some(25000) >>,
      << 2, 500, "P", -2, Some(800), None >>,
      << 1, 500, "call", 1, None, Some(20000) >> }

SpotInputs == { 500 }
TickHours == { 20 }
SpotArgs == { None, Some(450) }
DateArgs == { None, Some(4) }
VolMultipliers == { Milli, 1200 }
Offsets == { 0, 1 }
PointCounts == 1..MaxPoints
SpotRanges == { << None, None >>, << Some(300), Some(600) >>,
                << Some(100), Some(450) >> }
CostBasisArgs == { None, Some(10000) }

\* the arguments callers pass to greeks_vs_spot_price and pnl_vs_spot_price:
\* <<spot_min, spot_max, num_points, current_date, price_range_mode,
\*   volatility_multiplier, time_days_offset, use_log_scale>>
SweepArgs ==
    { << None, None, 3, None, "smart", Milli, 0, FALSE >>,
      << Some(300), Some(600), 3, Some(4), "smart", 1200, 1, FALSE >>,
      << Some(450), Some(450), 1, None, "strike_based", Milli, 1, FALSE >>,
      << None, None, 2, Some(4), "strike_based", 1200, 0, FALSE >>,
      << None, None, 3, None, "smart", Milli, 0, TRUE >>,
      << Some(0), Some(400), 3, Some(4), "smart", Milli, 0, TRUE >> }

\* <<days_range, num_points, spot_price>>
TimeDecayArgs ==
    { << None, 3, None >>, << Some(<< 0, 2 >>), 2, Some(450) >>,
      << None, 1, Some(450) >>, << None, 2, None >> }

\* <<iv_change_range, num_points, spot_price, current_date>>
VolatilityArgs ==
    { << << -500, 500 >>, 3, None, None >>,
      << << -1000, 0 >>, 2, Some(450), Some(4) >> }

Init ==
    /\ positions = << >>
    /\ current_spot_price = DefaultSpot
    /\ now = 0
    /\ last = NoCall

\* add_position
AddPosition ==
    \E a \in LegInputs :
        /\ last = NoCall
        /\ Len(positions) < MaxPositions
        /\ positions' = add_position(positions,
                                     Position(a[1], a[2], a[3], a[4], a[5], a[6]))
        /\ UNCHANGED << current_spot_price, now, last >>

\* list.pop(index) for 0 <= index < len
Pop(list, index) ==
    [ i \in 1..(Len(list) - 1) |-> IF i <= index THEN list[i] ELSE list[i + 1] ]

\* a faulty remove_position without the lower bound of the index test: a
\* negative index counts from the end of the list, as list.pop does
remove_position_wrapping(list, index) ==
    IF 0 <= index /\ index < Len(list) THEN Pop(list, index)
    ELSE IF index < 0 /\ -index <= Len(list) THEN Pop(list, Len(list) + index)
    ELSE list

\* the position list after remove_position(index)
remove_position(list, index) ==
    IF 0 <= index /\ index < Len(list) THEN Pop(list, index) ELSE list

RemovePosition ==
    \E index \in -1..MaxPositions :
        /\ last = NoCall
        /\ positions' = remove_position(positions, index)
        /\ UNCHANGED << current_spot_price, now, last >>

\* clear_positions
ClearPositions ==
    /\ last = NoCall
    /\ positions' = << >>
    /\ UNCHANGED << current_spot_price, now, last >>

\* analyzer.current_spot_price = spot
SetSpot ==
    \E spot \in SpotInputs :
        /\ last = NoCall
        /\ current_spot_price' = spot
        /\ UNCHANGED << positions, now, last >>

\* time passes
Tick ==
    \E h \in TickHours :
        /\ last = NoCall
        /\ now + h <= MaxNow
        /\ now' = now + h
        /\ UNCHANGED << positions, current_spot_price, last >>

\* volatility_sensitivity_analysis is in progress: `last` is its frame
InVolatilitySweep ==
    last.op = "volatility_sensitivity_analysis" /\ last.pc \in { "loop", "restore" }

\* the caller drops the result it holds
\* calculate_portfolio_greeks is in its loop over the positions while another
\* thread may run: `last` is its frame
InGreeksLoop ==
    last.op = "calculate_portfolio_greeks (threaded)" /\ last.pc = "loop"

Return ==
    /\ last # NoCall
    /\ ~InVolatilitySweep
    /\ ~InGreeksLoop
    /\ last' = NoCall
    /\ UNCHANGED << positions, current_spot_price, now >>

CalculateCostBasis ==
    \E spot \in SpotArgs :
        /\ last = NoCall
        /\ last' = [ op |-> "calculate_cost_basis",
                     args |-> [ current_spot_price |-> spot ],
                     result |-> calculate_cost_basis(self, now, spot) ]
        /\ UNCHANGED << positions, current_spot_price, now >>

CalculatePortfolioGreeks ==
    \E spot \in SpotArgs, date \in DateArgs, mult \in VolMultipliers, off \in Offsets :
        /\ last = NoCall
        /\ last' = [ op |-> "calculate_portfolio_greeks",
                     args |-> [ spot_price |-> spot, current_date |-> date,
                                volatility_multiplier |-> mult,
                                time_days_offset |-> off ],
                     branches |-> BranchesTaken(self, now, date, off),
                     maturities |-> MaturitiesUsed(self, now, date, off),
                     result |-> calculate_portfolio_greeks(self, now, spot, date,
                                                           mult, off) ]
        /\ UNCHANGED << positions, current_spot_price, now >>

CalculateSinglePositionGreeks ==
    \E i \in 1..Len(positions), spot \in SpotArgs, date \in DateArgs,
       mult \in VolMultipliers, days \in Offsets :
        /\ last = NoCall
        /\ last' = [ op |-> "calculate_single_position_greeks",
                     args |-> [ position |-> positions[i], spot_price |-> spot,
                                elapsed_days |-> days, current_date |-> date,
                                volatility_multiplier |-> mult ],
                     result |-> calculate_single_position_greeks(
                                    self, now, positions[i], spot, days, date, mult) ]
        /\ UNCHANGED << positions, current_spot_price, now >>

\* the keyword arguments of a sweep, from a tuple of SweepArgs
SweepRecord(a) ==
    [ spot_min |-> a[1], spot_max |-> a[2], num_points |-> a[3],
      current_date |-> a[4], price_range_mode |-> a[5],
      volatility_multiplier |-> a[6], time_days_offset |-> a[7],
      use_log_scale |-> a[8] ]

GreeksVsSpotPrice ==
    \E a \in SweepArgs :
        /\ last = NoCall
        /\ last' = [ op |-> "greeks_vs_spot_price",
                     args |-> SweepRecord(a),
                     result |-> greeks_vs_spot_price(self, now, a[1], a[2], a[3],
                                                     a[4], a[5], a[8], a[6], a[7]) ]
        /\ UNCHANGED << positions, current_spot_price, now >>

PnlVsSpotPrice ==
    \E a \in SweepArgs :
        /\ last = NoCall
        /\ last' = [ op |-> "pnl_vs_spot_price",
                     args |-> SweepRecord(a),
                     result |-> pnl_vs_spot_price(self, now, a[1], a[2], a[3],
                                                  a[4], a[6], a[7], a[5], a[8]) ]
        /\ UNCHANGED << positions, current_spot_price, now >>

CalculateMaxLossAtExpiration ==
    \E range \in SpotRanges, n \in PointCounts, cost \in CostBasisArgs :
        /\ last = NoCall
        /\ last' = [ op |-> "calculate_max_loss_at_expiration",
                     args |-> [ spot_min |-> range[1], spot_max |-> range[2],
                                num_points |-> n, cost_basis |-> cost ],
                     result |-> calculate_max_loss_at_expiration(
                                    self, now, range[1], range[2], n, cost) ]
        /\ UNCHANGED << positions, current_spot_price, now >>

TimeDecayAnalysis ==
    \E a \in TimeDecayArgs :
        /\ last = NoCall
        /\ last' = [ op |-> "time_decay_analysis",
                     args |-> [ days_range |-> a[1], num_points |-> a[2],
                                spot_price |-> a[3] ],
                     result |-> time_decay_analysis(self, now, a[1], a[2], a[3]) ]
        /\ UNCHANGED << positions, current_spot_price, now >>

\* the call of volatility_sensitivity_analysis up to the loop: the early
\* return for an empty portfolio, or iv_changes and original_vols are set
VolatilitySensitivityAnalysis ==
    \E a \in VolatilityArgs :
        /\ last = NoCall
        /\ last' = IF positions = << >>
                   THEN [ op |-> "volatility_sensitivity_analysis",
                          args |-> [ iv_change_range |-> a[1], num_points |-> a[2],
                                     spot_price |-> a[3], current_date |-> a[4] ],
                          pc |-> "done", result |-> << >> ]
                   ELSE [ op |-> "volatility_sensitivity_analysis",
                          args |-> [ iv_change_range |-> a[1], num_points |-> a[2],
                                     spot_price |-> a[3], current_date |-> a[4] ],
                          pc |-> "loop",
                          iv_changes |-> linspace(a[1][1], a[1][2], a[2]),
                          original_vols |-> [ i \in 1..Len(positions) |->
                                                positions[i].volatility ],
                          result |-> << >> ]
        /\ UNCHANGED << positions, current_spot_price, now >>

\* one iteration of the loop: the scaled volatilities are stored in the
\* positions, the aggregate is computed and a row is appended
VolatilitySweepPoint ==
    /\ last.op = "volatility_sensitivity_analysis"
    /\ last.pc = "loop"
    /\ \E scaled \in { ScaledPositions(positions, last.original_vols,
                                       last.iv_changes[Len(last.result) + 1]) } :
           /\ positions' = scaled
           /\ last' = [ last EXCEPT
                          !.result = Append(@, VolatilityRow(
                                         [ positions |-> scaled,
                                           current_spot_price |-> current_spot_price ],
                                         now, last.iv_changes[Len(last.result) + 1],
                                         IF last.args.spot_price = None
                                         THEN current_spot_price
                                         ELSE last.args.spot_price[1],
                                         last.args.current_date)),
                          !.pc = IF Len(last.result) + 1 = last.args.num_points
                                 THEN "restore" ELSE "loop" ]
    /\ UNCHANGED << current_spot_price, now >>

\* the smallest and largest stored volatility, in milli, at which the model
\* still lets an evaluation fail (failed sweeps compound the stored
\* volatilities without end)
MinVolatility == 500
MaxVolatility == 1000

\* a sweep whose failure is caught to put the saved volatilities back before
\* it propagates (try / finally), which the method does not do
VolatilitySweepRaisesRestoring ==
    /\ last.op = "volatility_sensitivity_analysis"
    /\ last.pc = "loop"
    /\ \A i \in 1..Len(positions) :
           last.original_vols[i] \in MinVolatility..MaxVolatility
    /\ positions' = RestoredPositions(positions, last.original_vols)
    /\ last' = [ last EXCEPT !.pc = "raised" ]
    /\ UNCHANGED << current_spot_price, now >>

\* one iteration of the loop in which calculate_portfolio_greeks raises: the
\* scaled volatilities are already stored, no row is appended, nothing
\* catches the exception and the call ends with it
VolatilitySweepRaises ==
    /\ last.op = "volatility_sensitivity_analysis"
    /\ last.pc = "loop"
    /\ \A i \in 1..Len(positions) :
           last.original_vols[i] \in MinVolatility..MaxVolatility
    /\ positions' = ScaledPositions(positions, last.original_vols,
                                    last.iv_changes[Len(last.result) + 1])
    /\ last' = [ last EXCEPT !.pc = "raised" ]
    /\ UNCHANGED << current_spot_price, now >>

\* after the loop: the saved volatilities are put back and the call returns
VolatilityRestore ==
    /\ last.op = "volatility_sensitivity_analysis"
    /\ last.pc = "restore"
    /\ positions' = RestoredPositions(positions, last.original_vols)
    /\ last' = [ last EXCEPT !.pc = "done" ]
    /\ UNCHANGED << current_spot_price, now >>

\* the arguments callers pass to BSCalculator.calculate_option_price: S and K
\* in whole units, T in micro-years, sigma in milli
PriceSpots == { 1, 450, 2000, 3000 }
PriceStrikes == { 100, 500, 3000 }
PriceMaturities == { 1, 2740, 82192, Micro }
PriceVolatilities == { 10, 500, Milli, 2000 }
PriceTypes == { "call", "put", "C", "P" }

\* bs_calculator.calculate_option_price(S, K, T, sigma, option_type)
CalculateOptionPrice ==
    \E S \in PriceSpots, K \in PriceStrikes, T \in PriceMaturities,
       sigma \in PriceVolatilities, option_type \in PriceTypes :
        /\ last = NoCall
        /\ last' = [ op |-> "calculate_option_price",
                     args |-> [ S |-> S, K |-> K, T |-> T, sigma |-> sigma,
                                option_type |-> option_type ],
                     result |-> calculate_option_price(S, K, T, sigma, option_type) ]
        /\ UNCHANGED << positions, current_spot_price, now >>

\* the strategy names and the spots callers pass to load_strategy_template
StrategyNames == { TemplateKeys[i] : i \in 1..Len(TemplateKeys) } \cup { "covered_call" }
TemplateSpots == { None, Some(450), Some(1260) }

\* load_strategy_template; the caller remembers how many positions it held
\* before the call
LoadStrategyTemplate ==
    \E name \in StrategyNames, spot \in TemplateSpots :
        /\ last = NoCall
        /\ \E outcome \in { load_strategy_template(self, now, name, spot) } :
               /\ positions' = outcome.positions
               /\ last' = [ op |-> "load_strategy_template",
                            args |-> [ strategy_name |-> name, current_spot |-> spot ],
                            held |-> Len(positions),
                            raised |-> outcome.raised ]
        /\ UNCHANGED << current_spot_price, now >>

\* the calls that change the analyzer or its environment
\* calculate_portfolio_greeks called while another thread shares the
\* analyzer, up to the loop: the spot default, the early return for an empty
\* list, the adjusted date and the totals at zero.  `index` is the position of
\* the list iterator; `before` remembers the list at the call and `removed`
\* the index of the overlapping remove_position, None while there is none.
GreeksBegin ==
    \E spot \in SpotArgs, date \in DateArgs, mult \in VolMultipliers, off \in Offsets :
        /\ last = NoCall
        /\ last' = [ op |-> "calculate_portfolio_greeks (threaded)",
                     args |-> [ spot_price |-> spot, current_date |-> date,
                                volatility_multiplier |-> mult,
                                time_days_offset |-> off ],
                     pc |-> IF positions = << >> THEN "done" ELSE "loop",
                     index |-> 0,
                     totals |-> ZeroTotals,
                     before |-> positions,
                     removed |-> None,
                     result |-> IF positions = << >> THEN Some(EmptyGreeks) ELSE None ]
        /\ UNCHANGED << positions, current_spot_price, now >>

\* one step of `for pos in self.positions`: the iterator hands out the entry
\* at its index in the list as it is now and the loop body adds that leg to
\* the totals, or the index has reached the length of the list as it is now
\* and the dictionary is returned
GreeksLoopStep ==
    /\ InGreeksLoop
    /\ last' = IF last.index < Len(positions)
               THEN With(LegTotals(positions[last.index + 1],
                                   IF last.args.spot_price = None
                                   THEN current_spot_price
                                   ELSE last.args.spot_price[1],
                                   (IF last.args.current_date = None THEN now
                                    ELSE last.args.current_date[1])
                                   + last.args.time_days_offset * HoursPerDay,
                                   last.args.volatility_multiplier),
                         LAMBDA c :
                           [ last EXCEPT
                               !.index = @ + 1,
                               !.totals =
                                   [ delta |-> @.delta + c.delta,
                                     gamma |-> @.gamma + c.gamma,
                                     theta |-> @.theta + c.theta,
                                     vega |-> @.vega + c.vega,
                                     rho |-> @.rho + c.rho,
                                     vanna |-> @.vanna + c.vanna,
                                     volga |-> @.volga + c.volga,
                                     value |-> @.value + c.value ] ])
               ELSE [ last EXCEPT !.pc = "done",
                                  !.result = Some(TotalsGreeks(last.totals)) ]
    /\ UNCHANGED << positions, current_spot_price, now >>

\* remove_position run by another thread between two steps of the loop, once
\* per aggregate call
ConcurrentRemovePosition ==
    \E index \in -1..MaxPositions :
        /\ InGreeksLoop
        /\ last.removed = None
        /\ positions' = remove_position(positions, index)
        /\ last' = [ last EXCEPT !.removed = Some(index) ]
        /\ UNCHANGED << current_spot_price, now >>

Mutate ==
    \/ AddPosition
    \/ RemovePosition
    \/ ClearPositions
    \/ SetSpot
    \/ Tick

Next ==
    \/ Mutate
    \/ CalculateCostBasis
    \/ CalculatePortfolioGreeks
    \/ GreeksVsSpotPrice
    \/ PnlVsSpotPrice
    \/ CalculateMaxLossAtExpiration
    \/ TimeDecayAnalysis
    \/ VolatilitySensitivityAnalysis
    \/ VolatilitySweepPoint
    \/ VolatilitySweepRaises
    \/ VolatilityRestore
    \/ CalculateSinglePositionGreeks
    \/ GreeksBegin
    \/ GreeksLoopStep
    \/ ConcurrentRemovePosition
    \/ LoadStrategyTemplate
    \/ CalculateOptionPrice
    \/ Return

Spec == Init /\ [][Next]_vars

\* a caller of the aggregate operations of the analyzer
NextAggregate ==
    \/ Mutate
    \/ CalculateCostBasis
    \/ CalculatePortfolioGreeks
    \/ GreeksVsSpotPrice
    \/ PnlVsSpotPrice
    \/ CalculateMaxLossAtExpiration
    \/ TimeDecayAnalysis
    \/ VolatilitySensitivityAnalysis
    \/ VolatilitySweepPoint
    \/ VolatilityRestore
    \/ Return
SpecAggregate == Init /\ [][NextAggregate]_vars

\* a caller that only asks for the aggregate Greeks
NextGreeks == Mutate \/ CalculatePortfolioGreeks \/ Return
SpecGreeks == Init /\ [][NextGreeks]_vars

\* a caller that only asks for the cost basis and the PnL sweep
NextPnl == Mutate \/ CalculateCostBasis \/ PnlVsSpotPrice \/ Return
SpecPnl == Init /\ [][NextPnl]_vars

\* a caller that only asks for the cost basis and the maximum loss
NextLoss == Mutate \/ CalculateCostBasis \/ CalculateMaxLossAtExpiration \/ Return
SpecLoss == Init /\ [][NextLoss]_vars

\* an owner that only edits the position list, the spot and lets time pass
SpecList == Init /\ [][Mutate]_vars

\* a caller of the calculator alone
NextPrice == CalculateOptionPrice \/ Return
SpecPrice == Init /\ [][NextPrice]_vars

\* a caller that asks for the quantities that read the wall clock
NextClock ==
    \/ Mutate
    \/ CalculateCostBasis
    \/ CalculatePortfolioGreeks
    \/ TimeDecayAnalysis
    \/ Return
SpecClock == Init /\ [][NextClock]_vars

\* a caller that only asks for the time decay curve
NextDecay == Mutate \/ TimeDecayAnalysis \/ Return
SpecDecay == Init /\ [][NextDecay]_vars

\* a caller that only asks for the Greeks along the spot axis
NextSweep == Mutate \/ GreeksVsSpotPrice \/ Return
SpecSweep == Init /\ [][NextSweep]_vars

\* a caller that only runs the volatility sweep
NextVolatility ==
    \/ Mutate
    \/ VolatilitySensitivityAnalysis
    \/ VolatilitySweepPoint
    \/ VolatilityRestore
    \/ Return
SpecVolatility == Init /\ [][NextVolatility]_vars

\* a caller that runs the volatility sweep, whose evaluations may fail
NextInterrupt ==
    \/ AddPosition
    \/ ClearPositions
    \/ VolatilitySensitivityAnalysis
    \/ VolatilitySweepPoint
    \/ VolatilitySweepRaises
    \/ VolatilityRestore
    \/ Return
SpecInterrupt == Init /\ [][NextInterrupt]_vars

\* a thread that asks for the aggregate Greeks while another thread removes
\* a position, with no synchronisation between them
NextThreads ==
    \/ Mutate
    \/ GreeksBegin
    \/ GreeksLoopStep
    \/ ConcurrentRemovePosition
    \/ Return
SpecThreads == Init /\ [][NextThreads]_vars

\* a caller of the three operations that dispatch on a leg's option type
NextDispatch ==
    \/ Mutate
    \/ CalculatePortfolioGreeks
    \/ CalculateCostBasis
    \/ CalculateMaxLossAtExpiration
    \/ Return
SpecDispatch == Init /\ [][NextDispatch]_vars

\* a caller that asks for the Greeks of single positions and of the portfolio
NextSingle ==
    \/ Mutate
    \/ CalculateSinglePositionGreeks
    \/ CalculatePortfolioGreeks
    \/ Return
SpecSingle == Init /\ [][NextSingle]_vars

\* a caller that loads a strategy template and asks for its maximum loss
NextExpiry ==
    \/ LoadStrategyTemplate
    \/ ClearPositions
    \/ CalculateMaxLossAtExpiration
    \/ Return
SpecExpiry == Init /\ [][NextExpiry]_vars

\* a caller that loads strategy templates and edits the position list
NextLoad == Mutate \/ LoadStrategyTemplate \/ Return
SpecLoad == Init /\ [][NextLoad]_vars


(***************************************************************************)
(* Properties of the calls, read off the result the caller holds.          *)
(***************************************************************************)
\* the fields of the aggregate that are sums over the legs
LinearFields ==
    { "delta", "gamma", "theta", "vega", "rho", "vanna", "volga", "position_value" }

\* the fields of the aggregate of a non-empty portfolio
AggregateFields == LinearFields \cup { "theta_daily", "vega_percent" }

\* an analyzer like this one that holds the legs `list`
Holding(list) == [ positions |-> list, current_spot_price |-> current_spot_price ]

\* calculate_portfolio_greeks on the legs `list` with the arguments a of a call
AggregateOf(list, a) ==
    calculate_portfolio_greeks(Holding(list), now, a.spot_price, a.current_date,
                               a.volatility_multiplier, a.time_days_offset)

\* the spot and the valuation instant a call with arguments a works with
SpotOf(a) == IF a.spot_price = None THEN current_spot_price ELSE a.spot_price[1]
AdjustedDateOf(a) ==
    (IF a.current_date = None THEN now ELSE a.current_date[1])
    + a.time_days_offset * HoursPerDay

\* C1: aggregation is linear over the position list: for every way of
\* cutting the held list into a list A followed by a list B, every summed
\* field of the aggregate of the whole list (delta, gamma, theta, vega, rho,
\* vanna, volga, position_value) is the sum of that field for A alone and for
\* B alone, under the same spot, valuation date, volatility multiplier and
\* time offset.
C1_AggregationLinear ==
    last.op = "calculate_portfolio_greeks" =>
        \A k \in 0..Len(positions) :
            LET A == AggregateOf(SubSeq(positions, 1, k), last.args)
                B == AggregateOf(SubSeq(positions, k + 1, Len(positions)), last.args)
            IN  \A f \in LinearFields : last.result[f] = A[f] + B[f]

\* a two-leg aggregate with one leg in each branch and non-zero sums
C1_Witness ==
    /\ last.op = "calculate_portfolio_greeks"
    /\ Len(positions) = 2
    /\ \E i, j \in 1..2 : last.branches[i] = "bs" /\ last.branches[j] = "intrinsic"
    /\ last.result.delta # 0
    /\ last.result.vega # 0
    /\ last.result.position_value # 0

\* the legs of `list` with every quantity negated
Negated(list) ==
    [ i \in 1..Len(list) |-> [ list[i] EXCEPT !.quantity = -list[i].quantity ] ]

\* the fraction x times the whole number q
FracTimes(x, q) == Frac(x.num * q, x.den)

\* every field of the aggregate g is q times the same field of the aggregate h
ScaledBy(g, h, q) ==
    /\ \A f \in LinearFields : g[f] = q * h[f]
    /\ FracEq(g.theta_daily, FracTimes(h.theta_daily, q))
    /\ FracEq(g.vega_percent, FracTimes(h.vega_percent, q))

\* C2: every aggregate field scales linearly, sign included, with quantity:
\* the aggregate of a single leg with quantity q is q times the aggregate of
\* the same leg with quantity 1, in the Black-Scholes branch and in the
\* intrinsic-value branch alike, and negating every quantity of a portfolio
\* negates every field of its aggregate.
C2_QuantityScaling ==
    (last.op = "calculate_portfolio_greeks" /\ positions # << >>) =>
        /\ ScaledBy(AggregateOf(Negated(positions), last.args), last.result, -1)
        /\ Len(positions) = 1 =>
               ScaledBy(last.result,
                        AggregateOf(<< [ positions[1] EXCEPT !.quantity = 1 ] >>,
                                    last.args),
                        positions[1].quantity)

\* a short leg of two contracts priced by Black-Scholes, with non-zero Greeks
C2_Witness ==
    /\ last.op = "calculate_portfolio_greeks"
    /\ Len(positions) = 1
    /\ positions[1].quantity = -2
    /\ last.branches[1] = "bs"
    /\ last.result.delta # 0
    /\ last.result.vega # 0
    /\ last.result.theta # 0

\* what a leg adds to a field of the aggregate: the aggregate with the leg
\* minus the aggregate of the other legs
Contribution(i, f) ==
    last.result[f] - AggregateOf(remove_position(positions, i - 1), last.args)[f]

\* C3: in the aggregate, a leg in the near-expiry branch adds
\* quantity * max(S - K, 0) (Call) or quantity * max(K - S, 0) (Put) to
\* position_value, adds quantity * d to delta with d = 1 for a Call with
\* S > K, d = -1 for a Put with S < K and d = 0 otherwise, and adds exactly 0
\* to gamma, theta, vega, rho, vanna and volga.  A leg is a Call when the
\* calculator prices its option type as a call.
C3_NearExpiryContribution ==
    last.op = "calculate_portfolio_greeks" =>
        \A i \in 1..Len(positions) :
            last.branches[i] = "intrinsic" =>
                LET pos == positions[i]
                    S == SpotOf(last.args)
                    call == IsCallType(pos.option_type)
                    payoff == IF call THEN Max(S - pos.strike, 0)
                              ELSE Max(pos.strike - S, 0)
                    d == IF call /\ S > pos.strike THEN 1
                         ELSE IF ~call /\ S < pos.strike THEN -1
                         ELSE 0
                IN  /\ Contribution(i, "position_value")
                           = pos.quantity * payoff * Milli
                    /\ Contribution(i, "delta") = pos.quantity * d * Milli
                    /\ \A f \in { "gamma", "theta", "vega", "rho", "vanna", "volga" } :
                           Contribution(i, f) = 0

\* C4: the aggregate takes the intrinsic-value branch for a leg exactly when
\* the leg's remaining time to expiry at valuation date + time offset is
\* below the threshold of 0.001 years, that is 8.76 hours; a leg with more
\* time left (20 hours, say) is priced by Black-Scholes.
C4_ThresholdBranch ==
    last.op = "calculate_portfolio_greeks" =>
        \A i \in 1..Len(positions) :
            LET remaining == positions[i].expiration_date - AdjustedDateOf(last.args)
            IN  (last.branches[i] = "intrinsic") <=> (remaining * 100 < 876)

\* C5: on an empty portfolio the aggregate is returned with the fields of a
\* non-empty portfolio's aggregate (delta, gamma, theta, theta_daily, vega,
\* vega_percent, rho, vanna, volga, position_value), every one of them 0.
C5_EmptySchema ==
    (last.op = "calculate_portfolio_greeks" /\ positions = << >>) =>
        /\ DOMAIN last.result = AggregateFields
        /\ \A f \in LinearFields : last.result[f] = 0
        /\ last.result.theta_daily.num = 0
        /\ last.result.vega_percent.num = 0

\* C6: on an empty portfolio every aggregate operation returns a zero-valued
\* result: cost_basis and max_loss_at_expiration return 0, and the sweeps
\* (greeks_vs_spot, pnl_vs_spot, time_decay_curve, volatility_sensitivity)
\* return the table with no rows.
C6_EmptyOperations ==
    positions = << >> =>
        /\ last.op \in { "calculate_cost_basis", "calculate_max_loss_at_expiration" }
               => last.result = 0
        /\ last.op \in { "greeks_vs_spot_price", "pnl_vs_spot_price",
                         "time_decay_analysis", "volatility_sensitivity_analysis" }
               => last.result = << >>

\* the maximum loss of an empty portfolio, asked for with a cost basis given
C6_Witness ==
    /\ positions = << >>
    /\ last.op = "calculate_max_loss_at_expiration"
    /\ last.args.cost_basis # None
    /\ last.args.spot_min # None
    /\ last.result = 0

\* every leg of `list` has its entry_price recorded
AllEntered(list) == \A i \in 1..Len(list) : list[i].entry_price # None

RECURSIVE SunkCost(_, _)
\* the sum of entry_price * quantity over list[1..n]
SunkCost(list, n) ==
    IF n = 0 THEN 0
    ELSE SunkCost(list, n - 1) + list[n].entry_price[1] * list[n].quantity

\* C7: the cost basis is a sunk cost: when every leg has entry_price set,
\* cost_basis is the sum of entry_price * quantity whatever reference spot is
\* passed, and the cost_basis pnl_vs_spot reports is the same for any two
\* values of the time offset and of the volatility multiplier on the same
\* portfolio.
C7_CostBasisSunk ==
    /\ (last.op = "calculate_cost_basis" /\ AllEntered(positions)) =>
           last.result = SunkCost(positions, Len(positions))
    /\ (last.op = "pnl_vs_spot_price" /\ positions # << >>) =>
           \A mult \in VolMultipliers, off \in Offsets :
               LET a == last.args
                   other == pnl_vs_spot_price(self, now, a.spot_min, a.spot_max, 1,
                                              a.current_date, mult, off,
                                              a.price_range_mode, a.use_log_scale)
               IN  \A i \in 1..Len(last.result) :
                       last.result[i].cost_basis = other[1].cost_basis

\* a PnL sweep one day ahead over two legs with recorded entry prices
C7_Witness ==
    /\ last.op = "pnl_vs_spot_price"
    /\ Len(positions) = 2
    /\ AllEntered(positions)
    /\ last.args.time_days_offset = 1
    /\ last.args.volatility_multiplier # Milli
    /\ last.result[1].cost_basis = SunkCost(positions, 2)
    /\ last.result[1].cost_basis # 0

\* C8: at every point S of the axis of pnl_vs_spot, pnl is the aggregate
\* position_value at spot S (same valuation date, volatility multiplier and
\* time offset) minus the one cost basis of the portfolio, and the reported
\* current value is the aggregate position_value at the unmodified current
\* spot under the same scenario.
C8_PnlDefinition ==
    (last.op = "pnl_vs_spot_price" /\ positions # << >>) =>
        LET a == last.args
            cost == calculate_cost_basis(self, now, Some(current_spot_price))
            ValueAt(S) ==
                calculate_portfolio_greeks(self, now, Some(S), a.current_date,
                                           a.volatility_multiplier,
                                           a.time_days_offset).position_value
        IN  \A i \in 1..Len(last.result) :
                /\ last.result[i].pnl = ValueAt(last.result[i].spot_price) - cost
                /\ last.result[i].cost_basis = cost
                /\ last.result[i].current_value = ValueAt(current_spot_price)

\* a three-point sweep whose PnL moves along the axis
C8_Witness ==
    /\ last.op = "pnl_vs_spot_price"
    /\ Len(last.result) = 3
    /\ last.result[1].pnl # last.result[3].pnl
    /\ last.result[1].cost_basis # 0
    /\ last.result[1].current_value # 0
    /\ last.result[1].current_value # last.result[1].position_value

\* C9: for a non-empty portfolio every row of the result of pnl_vs_spot has
\* a 'pnl' field and an 'initial_value' field.
C9_PnlRowFields ==
    (last.op = "pnl_vs_spot_price" /\ positions # << >>) =>
        \A i \in 1..Len(last.result) :
            { "pnl", "initial_value" } \subseteq DOMAIN last.result[i]

\* C10: for a portfolio of a single long call (one leg the calculator prices
\* as a call, quantity > 0) max_loss_at_expiration is -cost_basis, for every
\* strike, current spot and sampled spot range, the default range included.
C10_LongCallMaxLoss ==
    ( /\ last.op = "calculate_max_loss_at_expiration"
      /\ Len(positions) = 1
      /\ IsCallType(positions[1].option_type)
      /\ positions[1].quantity > 0 ) =>
        last.result = -(IF last.args.cost_basis = None
                        THEN calculate_cost_basis(self, now, Some(current_spot_price))
                        ELSE last.args.cost_basis[1])

\* the value at expiry of one contract of pos at spot S, in milli: a leg is a
\* call when the calculator prices its option type as a call
PayoffAtExpiry(pos, S) ==
    IF IsCallType(pos.option_type) THEN Max(S - pos.strike, 0) * Milli
    ELSE Max(pos.strike - S, 0) * Milli

RECURSIVE PortfolioPayoff(_, _, _)
\* the sum of payoff * quantity over list[1..n]
PortfolioPayoff(list, n, S) ==
    IF n = 0 THEN 0
    ELSE PortfolioPayoff(list, n - 1, S) + PayoffAtExpiry(list[n], S) * list[n].quantity

\* the maximum loss of the legs `list` at wall-clock time `clock`, with the
\* arguments a of a call
MaxLossOf(list, clock, a) ==
    calculate_max_loss_at_expiration(Holding(list), clock, a.spot_min, a.spot_max,
                                     a.num_points, a.cost_basis)

\* C11: max_loss_at_expiration is the minimum, over the N evenly spaced
\* sample spots of [spot_min, spot_max] (default [0.1*S, 3*S]), of the sum of
\* intrinsic value * quantity over the legs, minus cost_basis; and the result
\* is the same whatever the expiration or the volatility of any leg and
\* whatever the date of the valuation.
C11_MaxLossIntrinsic ==
    (last.op = "calculate_max_loss_at_expiration" /\ positions # << >>) =>
        LET a == last.args
            N == a.num_points
            cost == IF a.cost_basis = None
                    THEN calculate_cost_basis(self, now, Some(current_spot_price))
                    ELSE a.cost_basis[1]
            lo == IF a.spot_min = None THEN SDiv(current_spot_price, 10)
                  ELSE a.spot_min[1]
            hi == IF a.spot_max = None THEN current_spot_price * 3 ELSE a.spot_max[1]
            samples == [ i \in 1..N |-> IF N = 1 THEN lo
                                        ELSE lo + SDiv((i - 1) * (hi - lo), N - 1) ]
            values == [ i \in 1..N |->
                          PortfolioPayoff(positions, Len(positions), samples[i]) ]
        IN  /\ last.result = MinOf(values, N) - cost
            /\ \A clock \in 0..MaxNow : MaxLossOf(positions, clock, a) = last.result
            /\ \A i \in 1..Len(positions) :
                   /\ \A day \in 1..2 :
                          MaxLossOf([ positions EXCEPT ![i].expiration_date =
                                                           to_datetime(day) ],
                                    now, a) = last.result
                   /\ \A vol \in { 500, Milli } :
                          MaxLossOf([ positions EXCEPT ![i].volatility = vol ],
                                    now, a) = last.result

\* the spot a load_strategy_template call with arguments a works with
LoadSpotOf(a) ==
    IF a.current_spot = None THEN current_spot_price ELSE a.current_spot[1]

\* C12: load_strategy_template('long_straddle', S) leaves exactly 2
\* positions, one Call and one Put, both with quantity +1 and both at the
\* same strike, which is a multiple of 100 at least as near to S as any other
\* multiple of 100, whatever the portfolio held before the call.
C12_LongStraddle ==
    (last.op = "load_strategy_template" /\ last.args.strategy_name = "long_straddle") =>
        /\ Len(positions) = 2
        /\ \E i, j \in 1..2 :
               /\ IsCallType(positions[i].option_type)
               /\ positions[j].option_type = "P"
        /\ \A i \in 1..2 : positions[i].quantity = 1
        /\ positions[1].strike = positions[2].strike
        /\ positions[1].strike % 100 = 0
        /\ 2 * Abs(positions[1].strike - LoadSpotOf(last.args)) <= 100

\* a long straddle loaded at a spot that is no multiple of 100 over a
\* portfolio that held positions
C12_Witness ==
    /\ last.op = "load_strategy_template"
    /\ last.args.strategy_name = "long_straddle"
    /\ last.held > 0
    /\ LoadSpotOf(last.args) % 100 > 50
    /\ Len(positions) = 2

\* the nine template identifiers
ValidTemplates ==
    { "long_straddle", "short_straddle", "long_strangle", "short_strangle",
      "bull_call_spread", "bear_put_spread", "iron_condor", "butterfly",
      "call_calendar_spread" }

\* C13: load_strategy_template with a name that is not one of the nine
\* templates fails with an error the caller can catch, whose message names the
\* rejected identifier and the valid template identifiers, and loads no
\* template: the portfolio holds no position after the failed call.
C13_UnknownStrategy ==
    (last.op = "load_strategy_template" /\ last.args.strategy_name \notin ValidTemplates) =>
        /\ last.raised # None
        /\ last.raised[1].strategy_name = last.args.strategy_name
        /\ { last.raised[1].available[i] : i \in 1..Len(last.raised[1].available) }
               = ValidTemplates
        /\ positions = << >>

\* an unknown name rejected on a portfolio that held positions
C13_Witness ==
    /\ last.op = "load_strategy_template"
    /\ last.args.strategy_name = "covered_call"
    /\ last.held > 0
    /\ last.raised # None

\* the strike, the option type and the quantity of each position of `list`
LegsOf(list) ==
    [ i \in 1..Len(list) |->
        << list[i].strike, list[i].option_type, list[i].quantity >> ]

\* C14: after load_strategy_template(name, S) succeeds for a valid name the
\* portfolio holds exactly the legs of the recipe of that template, in recipe
\* order, and nothing it held before: 2 legs for the straddles, the
\* strangles, bull_call_spread, bear_put_spread and call_calendar_spread, the
\* 4 legs ATM-300 Put +1, ATM-100 Put -1, ATM+100 Call -1, ATM+300 Call +1
\* for iron_condor and the 3 legs ATM-200 +1, ATM -2, ATM+200 +1 for
\* butterfly.
C14_TemplateLegs ==
    (last.op = "load_strategy_template" /\ last.args.strategy_name \in ValidTemplates) =>
        LET name == last.args.strategy_name
            ATM == AtmStrike(LoadSpotOf(last.args))
        IN  /\ last.raised = None
            /\ LegsOf(positions) = templates(ATM)[name]
            /\ name \notin { "iron_condor", "butterfly" } => Len(positions) = 2
            /\ name = "iron_condor" =>
                   LegsOf(positions) = << << ATM - 300, "P", 1 >>, << ATM - 100, "P", -1 >>,
                                          << ATM + 100, "C", -1 >>, << ATM + 300, "C", 1 >> >>
            /\ name = "butterfly" =>
                   /\ Len(positions) = 3
                   /\ [ i \in 1..3 |-> << positions[i].strike, positions[i].quantity >> ]
                          = << << ATM - 200, 1 >>, << ATM, -2 >>, << ATM + 200, 1 >> >>

\* an iron condor loaded over a portfolio that held two positions
C14_Witness ==
    /\ last.op = "load_strategy_template"
    /\ last.args.strategy_name = "iron_condor"
    /\ last.held = 2
    /\ Len(positions) = 4

\* C15: volatility_sensitivity never changes the stored volatility of a leg:
\* in every state of the sweep, the intermediate ones included, and after it
\* has returned, the volatility every position holds is the one it held
\* before the call.
C15_VolatilityUntouched ==
    (last.op = "volatility_sensitivity_analysis" /\ positions # << >>) =>
        \A i \in 1..Len(positions) : positions[i].volatility = last.original_vols[i]

\* the sweep point Δ = iv_change keeps every scaled volatility of the
\* unmodified legs at or above the 1% floor
AboveFloor(original_vols, iv_change) ==
    \A i \in 1..Len(original_vols) :
        SDiv(original_vols[i] * (Milli + iv_change), Milli) >= 10

\* the fields a row of volatility_sensitivity shares with the aggregate
SharedFields ==
    { "delta", "gamma", "theta", "vega", "rho", "vanna", "volga", "position_value" }

\* C16: for every sweep point Δ at which no leg's scaled volatility falls
\* below the 1% floor, the row of volatility_sensitivity for Δ equals, on
\* delta, gamma, theta, vega, rho, vanna, volga and position_value, the
\* aggregate of the unmodified portfolio at the same spot and valuation date
\* with vol_multiplier = 1 + Δ.
C16_SweepMatchesMultiplier ==
    (last.op = "volatility_sensitivity_analysis" /\ positions # << >>) =>
        LET unmodified == Holding(RestoredPositions(positions, last.original_vols))
        IN  \A k \in 1..Len(last.result) :
                AboveFloor(last.original_vols, last.iv_changes[k]) =>
                    \A f \in SharedFields :
                        last.result[k][f]
                            = calculate_portfolio_greeks(
                                  unmodified, now, last.args.spot_price,
                                  last.args.current_date,
                                  Milli + last.iv_changes[k], 0)[f]

\* a finished three-point sweep from -50% to +50% over two legs whose vega
\* and value move with the volatility
C16_Witness ==
    /\ last.op = "volatility_sensitivity_analysis"
    /\ last.pc = "done"
    /\ Len(positions) = 2
    /\ Len(last.result) = 3
    /\ \A k \in 1..3 : AboveFloor(last.original_vols, last.iv_changes[k])
    /\ last.result[1].vega # last.result[3].vega
    /\ last.result[1].position_value # last.result[3].position_value

\* the rows of a greeks_vs_spot call are `num_points` rows along an axis that
\* starts at `first` and, with more than one row, ends at spot_max; each row
\* carries the aggregate at its own spot and the current spot as marker
SweepAlongAxis(first) ==
    LET a == last.args
        N == a.num_points
        calculated == calculate_smart_price_range(self, a.price_range_mode)
        hi == IF a.spot_max = None THEN calculated[2] ELSE a.spot_max[1]
        rows == last.result
    IN  /\ Len(rows) = N
        /\ rows[1].spot_price = first
        /\ N >= 2 => rows[N].spot_price = hi
        /\ \A i \in 1..(N - 1) :
               IF first <= hi THEN rows[i].spot_price <= rows[i + 1].spot_price
               ELSE rows[i].spot_price >= rows[i + 1].spot_price
        /\ \A i \in 1..N :
               /\ \A f \in LinearFields \cup { "theta_daily" } :
                      rows[i][f] = calculate_portfolio_greeks(
                                       self, now, Some(rows[i].spot_price),
                                       a.current_date, a.volatility_multiplier,
                                       a.time_days_offset)[f]
               /\ rows[i].current_spot = current_spot_price

\* the spot_min a greeks_vs_spot call works with: the argument, or the lower
\* end of the calculated range
SpotMinOf(a) ==
    IF a.spot_min = None THEN calculate_smart_price_range(self, a.price_range_mode)[1]
    ELSE a.spot_min[1]

\* C17 as stated: for a non-empty portfolio greeks_vs_spot returns exactly N
\* rows ordered along the spot axis from spot_min to spot_max; each row's
\* Greeks and position_value are the aggregate at that row's spot with the
\* same valuation date, vol_multiplier and time_offset_days, and every row
\* carries the current spot of the portfolio as marker.
C17_GreeksSweepFromSpotMin ==
    (last.op = "greeks_vs_spot_price" /\ positions # << >>) =>
        SweepAlongAxis(SpotMinOf(last.args))

\* C17, amended: as above, with the axis starting at spot_min on the linear
\* scale and at max(spot_min, 1) on the logarithmic scale.
C17_GreeksSweep ==
    (last.op = "greeks_vs_spot_price" /\ positions # << >>) =>
        SweepAlongAxis(IF last.args.use_log_scale THEN Max(SpotMinOf(last.args), 1)
                       ELSE SpotMinOf(last.args))

\* a three-point sweep on the logarithmic scale over two legs, whose rows
\* differ and whose spot_min was raised to 1
C17_Witness ==
    /\ last.op = "greeks_vs_spot_price"
    /\ Len(positions) = 2
    /\ last.args.use_log_scale
    /\ Len(last.result) = 3
    /\ last.result[1].spot_price = 1
    /\ last.result[1].spot_price < last.result[2].spot_price
    /\ last.result[2].spot_price < last.result[3].spot_price
    /\ last.result[1].position_value # last.result[3].position_value

\* C18: every calculation is a function of its explicit inputs alone: the
\* result of aggregate_greeks, cost_basis and time_decay_curve on a position
\* list with given explicit arguments is the same at whatever wall-clock time
\* the call is made.
C18_ClockIndependent ==
    \A clock \in 0..MaxNow :
        /\ last.op = "calculate_portfolio_greeks" =>
               calculate_portfolio_greeks(self, clock, last.args.spot_price,
                                          last.args.current_date,
                                          last.args.volatility_multiplier,
                                          last.args.time_days_offset) = last.result
        /\ last.op = "calculate_cost_basis" =>
               calculate_cost_basis(self, clock, last.args.current_spot_price)
                   = last.result
        /\ last.op = "time_decay_analysis" =>
               time_decay_analysis(self, clock, last.args.days_range,
                                   last.args.num_points, last.args.spot_price)
                   = last.result

C20_AddPositionAppends ==
    /\ [](\A a \in LegInputs :
             LET pos == Position(a[1], a[2], a[3], a[4], a[5], a[6])
                 after == add_position(positions, pos)
             IN  /\ Len(after) = Len(positions) + 1
                 /\ SubSeq(after, 1, Len(positions)) = positions
                 /\ after[Len(after)] = pos)
    /\ [][Len(positions') > Len(positions) =>
              /\ Len(positions') = Len(positions) + 1
              /\ SubSeq(positions', 1, Len(positions)) = positions]_vars

\* the same leg added twice: the list holds two equal entries
C20_Witness ==
    /\ Len(positions) = 2
    /\ positions[1] = positions[2]

\* the valuation date of a call with arguments a, in hours
ValuationDateOf(a) == IF a.current_date = None THEN now ELSE a.current_date[1]

\* C21: the time offset is equivalent to moving the valuation date: for every
\* portfolio, spot, volatility multiplier, date d and offset k, the aggregate
\* at valuation date d with offset k equals the aggregate at valuation date
\* d + k days with offset 0, and the time to maturity used for each leg is
\* the one at d + k days.
C21_OffsetMovesDate ==
    last.op = "calculate_portfolio_greeks" =>
        LET a == last.args
            moved == ValuationDateOf(a) + a.time_days_offset * HoursPerDay
        IN  /\ last.result
                  = calculate_portfolio_greeks(self, now, a.spot_price, Some(moved),
                                               a.volatility_multiplier, 0)
            /\ last.maturities
                  = [ i \in 1..Len(positions) |->
                        time_to_maturity(positions[i], Some(moved), now) ]

\* an aggregate at an explicit date with a one-day offset that changes the
\* time to maturity of a leg and the aggregate
C21_Witness ==
    /\ last.op = "calculate_portfolio_greeks"
    /\ last.args.current_date # None
    /\ last.args.time_days_offset = 1
    /\ positions # << >>
    /\ \E i \in 1..Len(positions) :
           last.maturities[i]
               # time_to_maturity(positions[i], last.args.current_date, now)
    /\ last.result
           # calculate_portfolio_greeks(self, now, last.args.spot_price,
                                        last.args.current_date,
                                        last.args.volatility_multiplier, 0)

\* the whole-day count to expiry of the longest-dated leg held, read now
LongestDays ==
    CHOOSE d \in { days_to_expiry(positions[i], Some(now), now) :
                     i \in 1..Len(positions) } :
        \A i \in 1..Len(positions) : days_to_expiry(positions[i], Some(now), now) <= d

\* the fields a row of the time decay curve copies from the aggregate
DecayFields ==
    { "delta", "gamma", "theta", "theta_daily", "vega", "rho", "vanna", "volga",
      "position_value" }

\* row r of a time decay curve is labelled with hours-to-expiry and holds the
\* aggregate at the simulated date now + (D days - label)
DecayRowAt(r, a) ==
    LET simulated == now + (LongestDays * HoursPerDay - r.days_to_expiry)
        g == calculate_portfolio_greeks(self, now, Some(SpotOf(a)), Some(simulated),
                                        Milli, 0)
    IN  /\ r.date = simulated
        /\ \A f \in DecayFields : r[f] = g[f]

\* the rows are labelled in decreasing order
DecayDecreasing(rows) ==
    \A i \in 1..(Len(rows) - 1) :
        /\ rows[i].days_to_expiry >= rows[i + 1].days_to_expiry
        /\ LongestDays > 0 => rows[i].days_to_expiry > rows[i + 1].days_to_expiry

\* a time decay call on a non-empty portfolio with the default days_range
DefaultDecayCall ==
    /\ last.op = "time_decay_analysis"
    /\ last.args.days_range = None
    /\ positions # << >>

\* C22 as stated: with the default days_range the curve has exactly N rows
\* ordered by days_to_expiry decreasing from D (whole days to expiry of the
\* longest-dated leg) down to 0, the row labelled d is the aggregate at the
\* simulated date now + (D - d) days, the first row is the present and the
\* last row is at the longest-dated leg's expiry, for every N.
C22_DecayRowsEveryN ==
    DefaultDecayCall =>
        LET rows == last.result
            N == last.args.num_points
        IN  /\ Len(rows) = N
            /\ DecayDecreasing(rows)
            /\ rows[1].days_to_expiry = LongestDays * HoursPerDay
            /\ rows[1].date = now
            /\ rows[N].days_to_expiry = 0
            /\ rows[N].date = now + LongestDays * HoursPerDay
            /\ \A i \in 1..N : DecayRowAt(rows[i], last.args)

\* C22 (amended): the same for N >= 2; with N = 1 the only row is the
\* present, labelled D, and no row is at the expiry unless D = 0.
C22_DecayRows ==
    DefaultDecayCall =>
        LET rows == last.result
            N == last.args.num_points
        IN  /\ Len(rows) = N
            /\ DecayDecreasing(rows)
            /\ rows[1].days_to_expiry = LongestDays * HoursPerDay
            /\ rows[1].date = now
            /\ N >= 2 => /\ rows[N].days_to_expiry = 0
                         /\ rows[N].date = now + LongestDays * HoursPerDay
            /\ \A i \in 1..N : DecayRowAt(rows[i], last.args)

\* a three-row curve of two legs with different expiries, the longest two
\* days away, whose value changes between the present and the expiry
C22_Witness ==
    /\ DefaultDecayCall
    /\ last.args.num_points = 3
    /\ Len(positions) = 2
    /\ positions[1].expiration_date # positions[2].expiration_date
    /\ LongestDays = 2
    /\ last.result[1].position_value # last.result[3].position_value

\* the sweep point a volatility sweep was at when it ended with an exception
FailingPoint == last.iv_changes[Len(last.result) + 1]

\* C23: if an aggregate evaluation fails partway through
\* volatility_sensitivity, the failure propagates to the caller and the stored
\* leg volatilities are left at the scaled values of the failing sweep point,
\* original * (1 + Δ) floored at 1%, instead of being restored.
C23_FailureLeavesScaled ==
    (last.op = "volatility_sensitivity_analysis" /\ last.pc = "raised") =>
        /\ ENABLED Return
        /\ ~ENABLED VolatilityRestore
        /\ Len(positions) = Len(last.original_vols)
        /\ \A i \in 1..Len(positions) :
               positions[i].volatility
                   = Max(SDiv(last.original_vols[i] * (Milli + FailingPoint), Milli), 10)

\* a sweep that failed at its third point, after two rows, and left every
\* leg with a volatility other than the one it had before the call
C23_Witness ==
    /\ last.op = "volatility_sensitivity_analysis"
    /\ last.pc = "raised"
    /\ Len(last.result) = 2
    /\ Len(positions) = 2
    /\ \A i \in 1..2 : positions[i].volatility # last.original_vols[i]

\* C24: a failed load_strategy_template leaves the portfolio unchanged: when
\* the name is unknown and the call raises, the position list after the
\* call is identical to the list before the call.
C24_FailedLoadUnchanged ==
    [][ (last = NoCall /\ last'.op = "load_strategy_template" /\ last'.raised # None)
            => positions' = positions ]_vars

\* the aggregate g equals the aggregate h on every summed field
SameSums(g, h) == \A f \in LinearFields : g[f] = h[f]

\* C25: an aggregate_greeks call that overlaps one remove_position call on
\* the same aggregator, with no other synchronisation, returns either the
\* aggregate of the position list as it was before the removal or the
\* aggregate of the list after the removal; it never returns a sum that skips
\* or double-counts a leg that was not removed.
C25_OverlapAtomic ==
    (last.op = "calculate_portfolio_greeks (threaded)" /\ last.pc = "done"
        /\ last.removed # None) =>
        \/ SameSums(last.result[1], AggregateOf(last.before, last.args))
        \/ SameSums(last.result[1], AggregateOf(positions, last.args))

\* the legs of `list` with every option type replaced by the kind the
\* calculator prices it as: 'C' for a Call, 'P' for a Put
AsPriced(list) ==
    [ i \in 1..Len(list) |->
        [ list[i] EXCEPT !.option_type = IF IsCallType(@) THEN "C" ELSE "P" ] ]

\* C26: Call/Put dispatch on the option-type string is consistent across
\* operations: a leg created with a string the calculator prices as a Call
\* ("C", "c", "call", "Call") is treated as a Call by the intrinsic-value
\* branch of aggregate_greeks, by the expired-leg fallback of cost_basis and
\* by max_loss_at_expiration, and likewise for a Put; so each of the three
\* results is the one obtained with every leg typed 'C' or 'P' as the
\* calculator prices it.
C26_DispatchConsistent ==
    /\ last.op = "calculate_portfolio_greeks" =>
           last.result = AggregateOf(AsPriced(positions), last.args)
    /\ last.op = "calculate_cost_basis" =>
           last.result = calculate_cost_basis(Holding(AsPriced(positions)), now,
                                              last.args.current_spot_price)
    /\ last.op = "calculate_max_loss_at_expiration" =>
           last.result = calculate_max_loss_at_expiration(
                             Holding(AsPriced(positions)), now, last.args.spot_min,
                             last.args.spot_max, last.args.num_points,
                             last.args.cost_basis)

\* calculate_single_position_greeks of leg i of the held list with the
\* arguments a of an aggregate call, the time offset as elapsed days
SingleOf(i, a) ==
    calculate_single_position_greeks(self, now, positions[i], a.spot_price,
                                     a.time_days_offset, a.current_date,
                                     a.volatility_multiplier)

RECURSIVE SumSingles(_, _, _)
\* the sum of field f of the single-position results of legs 1..n
SumSingles(n, a, f) ==
    IF n = 0 THEN 0 ELSE SumSingles(n - 1, a, f) + SingleOf(n, a)[f]

RECURSIVE SumSinglesDaily(_, _)
\* the sum of theta_daily of the single-position results of legs 1..n, in
\* 365ths
SumSinglesDaily(n, a) ==
    IF n = 0 THEN 0
    ELSE SumSinglesDaily(n - 1, a)
         + With(SingleOf(n, a).theta_daily, LAMBDA x : (x.num * 365) \div x.den)

\* C27: for every position p, spot, valuation date, elapsed days k and
\* volatility multiplier, calculate_single_position_greeks(p, ...) equals, on
\* delta, gamma, theta, theta_daily, vega, rho, vanna, volga and
\* position_value, the aggregate of a portfolio holding only p with
\* time_offset_days = k; hence the aggregate of a portfolio is the sum of the
\* single-position results over its legs.
C27_SingleRefinesAggregate ==
    /\ last.op = "calculate_single_position_greeks" =>
           LET a == last.args
               g == calculate_portfolio_greeks(
                        Holding(<< a.position >>), now, a.spot_price, a.current_date,
                        a.volatility_multiplier, a.elapsed_days)
           IN  /\ \A f \in LinearFields : last.result[f] = g[f]
               /\ FracEq(last.result.theta_daily, g.theta_daily)
    /\ (last.op = "calculate_portfolio_greeks" /\ positions # << >>) =>
           /\ \A f \in LinearFields :
                  last.result[f] = SumSingles(Len(positions), last.args, f)
           /\ FracEq(last.result.theta_daily,
                     Frac(SumSinglesDaily(Len(positions), last.args), 365))

\* a short put of two contracts, held with another leg, valued alone one day
\* ahead with the volatility raised by 20% and priced by Black-Scholes
C27_Witness ==
    /\ last.op = "calculate_single_position_greeks"
    /\ last.args.position.quantity = -2
    /\ last.args.elapsed_days = 1
    /\ last.args.volatility_multiplier = 1200
    /\ last.result.remaining_days > 0
    /\ last.result.vega # 0
    /\ last.result.position_value # 0
    /\ Len(positions) = 2

\* `after` is `before` without its entry at the 0-based index, the other
\* entries in their order
WithoutEntry(before, after, index) ==
    /\ Len(after) = Len(before) - 1
    /\ \A j \in 1..Len(after) :
           after[j] = IF j <= index THEN before[j] ELSE before[j + 1]

\* C28: remove_position(index) with 0 <= index < length removes exactly the
\* entry at that index and keeps the remaining entries in their original
\* relative order; with any other index (negative, or >= length, including
\* on an empty list) it leaves the position list unchanged and raises no
\* error.  This holds of the call on every reachable list, and every step
\* that shortens the list without emptying it takes out exactly one entry.
C28_RemovePosition ==
    /\ [](\A index \in -2..(MaxPositions + 1) :
             LET after == remove_position(positions, index)
             IN  IF 0 <= index /\ index < Len(positions)
                 THEN WithoutEntry(positions, after, index)
                 ELSE after = positions)
    /\ [][(Len(positions') < Len(positions) /\ positions' # << >>) =>
              \E index \in 0..(Len(positions) - 1) :
                  WithoutEntry(positions, positions', index)]_vars

\* two different legs are held: removing index 0 leaves the second leg alone,
\* removing index 1 the first, and index -1 or 2 leaves both
C28_Witness ==
    /\ Len(positions) = 2
    /\ positions[1] # positions[2]
    /\ remove_position(positions, 0) = << positions[2] >>
    /\ remove_position(positions, 1) = << positions[1] >>
    /\ remove_position(positions, -1) = positions
    /\ remove_position(positions, 2) = positions
    /\ ENABLED RemovePosition

\* the leg without its volatility
SansVolatility(pos) ==
    [ expiration_date |-> pos.expiration_date, strike |-> pos.strike,
      option_type |-> pos.option_type, quantity |-> pos.quantity,
      entry_price |-> pos.entry_price ]

\* C29: when volatility_sensitivity returns normally, every position's
\* stored volatility equals its value before the call, also for legs whose
\* scaled volatility was floored at 0.01 during the sweep, and the position
\* list, quantities, strikes and entry prices are unchanged: the frame of a
\* finished call holds the volatilities saved at its start, every step of the
\* call leaves everything but the volatilities alone, and the step that ends
\* the call leaves the saved volatilities in the positions.
C29_RestoredOnReturn ==
    /\ []((last.op = "volatility_sensitivity_analysis" /\ last.pc = "done"
              /\ positions # << >>) =>
             /\ Len(last.result) = last.args.num_points
             /\ Len(positions) = Len(last.original_vols)
             /\ \A i \in 1..Len(positions) :
                    positions[i].volatility = last.original_vols[i])
    /\ [][(last.op = "none" /\ last'.op = "volatility_sensitivity_analysis") =>
              /\ positions' = positions
              /\ last'.pc # "done" =>
                     last'.original_vols
                         = [ i \in 1..Len(positions) |-> positions[i].volatility ]]_vars
    /\ [][(last.op = "volatility_sensitivity_analysis"
              /\ last'.op = "volatility_sensitivity_analysis") =>
              /\ Len(positions') = Len(positions)
              /\ \A i \in 1..Len(positions) :
                     SansVolatility(positions'[i]) = SansVolatility(positions[i])
              /\ last'.original_vols = last.original_vols]_vars

\* a finished two-point sweep from -100% over two legs: at the first point
\* both volatilities were floored at 0.01, and both legs hold their own
\* volatilities again
C29_Witness ==
    /\ last.op = "volatility_sensitivity_analysis"
    /\ last.pc = "done"
    /\ Len(positions) = 2
    /\ last.iv_changes = << -1000, 0 >>
    /\ Len(last.result) = 2
    /\ positions[1].volatility = 500
    /\ positions[2].volatility = 800

\* the ends of the interval a maximum-loss call with arguments a samples
LossRangeOf(a) ==
    << IF a.spot_min = None THEN SDiv(current_spot_price, 10) ELSE a.spot_min[1],
       IF a.spot_max = None THEN current_spot_price * 3 ELSE a.spot_max[1] >>

\* the spots of [lo, hi] where the expiry value of the held legs can turn:
\* the two ends and every leg strike in between (the value is linear in the
\* spot between two neighbouring ones)
TurningSpots(lo, hi) ==
    { lo, hi } \cup ({ positions[i].strike : i \in 1..Len(positions) } \cap (lo..hi))

\* C30: max_loss_at_expiration is a lower bound on the portfolio's expiry PnL
\* (intrinsic portfolio value minus cost_basis) at every spot of the whole
\* interval [spot_min, spot_max], the leg strikes that lie strictly between
\* two adjacent sample points included.
C30_MaxLossLowerBound ==
    (last.op = "calculate_max_loss_at_expiration" /\ positions # << >>) =>
        LET range == LossRangeOf(last.args)
            cost == IF last.args.cost_basis = None
                    THEN calculate_cost_basis(self, now, Some(current_spot_price))
                    ELSE last.args.cost_basis[1]
        IN  \A S \in TurningSpots(range[1], range[2]) :
                last.result
                    <= ExpirationValue(positions, Len(positions), S) - cost

=============================================================================
